---- MODULE Spec2Model ----
(***************************************************************************)
(* A model of makefilehub's core: the build-system detector                *)
(* (src/runner/detect.rs), the three runners (src/runner/makefile.rs,      *)
(* justfile.rs, script.rs) and the asynchronous executor                   *)
(* (src/executor/runner.rs).                                               *)
(*                                                                         *)
(* Text is modelled as a sequence of units.  A unit is one byte of the     *)
(* alphabet Bytes, or (in the runner part) one indivisible phrase.         *)
(* Unix is the modelled platform (the #[cfg(unix)] branches).              *)
(***************************************************************************)
EXTENDS Integers, Sequences, FiniteSets, TLC

VARIABLES
    \* ---- detector (src/runner/detect.rs) ----
    dir,          \* the probed directory: file name -> kind of entry
    config,       \* [runner_priority, scripts]: the part of Config detect reads
    det_pc,       \* "input" before detect_runner is called, "done" after
    detection,    \* the DetectionResult returned by detect_runner
    \* ---- a runner's run_task (src/runner/{makefile,justfile,script}.rs) ----
    rn_runner,    \* "make", "just" or "script": the runner being called
    rn_dir,       \* what the directory holds for that runner, now
    rn_dir0,      \* what it held when run_task was called
    rn_installed, \* whether the backend program (make, just, bash) can be spawned
    rn_task,      \* the task name passed to run_task
    rn_options,   \* the RunOptions passed to run_task
    rn_pc,        \* "idle", "running" (blocked in the Command::output() of the
                  \* task), "tool_started" / "tool_read" (blocked in that of a
                  \* listing program), "listed", "done"
    rn_elapsed,   \* ticks the spawned process has been running
    rn_output,    \* the std::process::Output of the finished process
    rn_result,    \* what run_task returned
    rn_listing,   \* the list_tasks call: its caller, the strategies run, its result
    rn_spawned,   \* how many subprocesses the call has spawned
    \* ---- exec_command (src/executor/runner.rs) ----
    ex_program,   \* what the spawned program does
    ex_options,   \* the ExecOptions of the call
    ex_pc,        \* "init", "waiting" (suspended), "returned" or "dropped"
    ex_stage,     \* the await wait_for_output is suspended at
    ex_child,     \* the child process
    ex_pipe,      \* the stdout and stderr pipes of the child
    ex_drain,     \* the two spawned read_and_truncate tasks
    ex_result,    \* what exec_command returned
    \* ---- read_and_truncate on its own ----
    tr_content,   \* the bytes the reader delivers before EOF
    tr_max_size,  \* max_size
    tr_pc,        \* "call" before the call, "returned" after
    tr_ret,       \* the locals of read_and_truncate when it ended
    \* ---- two concurrent exec_command calls ----
    cx_call,      \* call -> the state of that exec_command call
    cx_pipe,      \* (call, stream) -> the pipe behind that stream
    ds_strategy,  \* the discovery strategy that is called
    ds_input,     \* the text it reads
    ds_result,    \* what it returns
    ds_pc,        \* "call" before the strategy has run, "returned" after
    cm_runner,    \* the runner run_task is called on
    cm_task,      \* the task name
    cm_options,   \* the RunOptions: named and positional arguments
    cm_command,   \* the command string build_command returned
    cm_argv,      \* the program and arguments handed to Command
    cm_pc,        \* "call" before run_task has spawned, "spawned" after
    rs_input,     \* the exit status and output of the finished process
    rs_exec,      \* the ExecResult exec_command returned
    rs_run,       \* the RunResult of to_run_result
    rs_pc,        \* "call", "exec_returned" or "done"
    bo_executor,    \* the TaskExecutor of the call
    bo_overrides,   \* the ExecOptions the caller passed
    bo_merged,      \* the ExecOptions handed to exec_command
    bo_pc,          \* "call", "exec_command"; "idle" in the other specifications
    pt_program,     \* what the spawned command does
    pt_options,     \* the ExecOptions of the call
    pt_pc,          \* "init", "waiting", "returned"; "idle" in the other specifications
    pt_stage,       \* the await point of wait_for_output
    pt_child,       \* the child process
    pt_descendant,  \* "none", "running", "exited"
    pt_pipe,        \* the two pipes
    pt_drain,       \* the two drain tasks
    pt_result,      \* what exec_command returned
    mc_config,      \* the Config inside the RwLock (the edit it was loaded from)
    mc_disk,        \* the configuration files (the number of edits so far)
    mc_lock,        \* the RwLock
    mc_call,        \* the tool calls
    mc_reload,      \* reload_config
    rb_params,      \* per call: its services and what their steps meet
    rb_response,    \* per call: the RebuildServiceResponse
    rb_pc           \* per call: where the handler is and its four vectors

detVars == <<dir, config, det_pc, detection>>

runVars == <<rn_runner, rn_dir, rn_dir0, rn_installed, rn_task, rn_options,
             rn_pc, rn_elapsed, rn_output, rn_result, rn_listing,
             rn_spawned>>

execVars == <<ex_program, ex_options, ex_pc, ex_stage, ex_child, ex_pipe,
              ex_drain, ex_result>>

truncVars == <<tr_content, tr_max_size, tr_pc, tr_ret>>

concVars == <<cx_call, cx_pipe>>

discVars == <<ds_strategy, ds_input, ds_result, ds_pc>>

cmdVars == <<cm_runner, cm_task, cm_options, cm_command, cm_argv, cm_pc>>

resVars == <<rs_input, rs_exec, rs_run, rs_pc>>

optVars == <<bo_executor, bo_overrides, bo_merged, bo_pc>>

treeVars == <<pt_program, pt_options, pt_pc, pt_stage, pt_child, pt_descendant, pt_pipe, pt_drain, pt_result>>

serverVars == <<mc_config, mc_disk, mc_lock, mc_call, mc_reload>>

rebuildVars == <<rb_params, rb_response, rb_pc>>

notDetVars == <<runVars, execVars, truncVars, concVars, discVars, cmdVars, resVars, optVars, treeVars, serverVars, rebuildVars>>

notRunVars == <<detVars, execVars, truncVars, concVars, discVars, cmdVars, resVars, optVars, treeVars, serverVars, rebuildVars>>

notExecVars == <<detVars, runVars, truncVars, concVars, discVars, cmdVars, resVars, optVars, treeVars, serverVars, rebuildVars>>

notTruncVars == <<detVars, runVars, execVars, concVars, discVars, cmdVars, resVars, optVars, treeVars, serverVars, rebuildVars>>

notConcVars == <<detVars, runVars, execVars, truncVars, discVars, cmdVars, resVars, optVars, treeVars, serverVars, rebuildVars>>

notDiscVars == <<detVars, runVars, execVars, truncVars, concVars, cmdVars, resVars, optVars, treeVars, serverVars, rebuildVars>>

notCmdVars == <<detVars, runVars, execVars, truncVars, concVars, discVars, resVars, optVars, treeVars, serverVars, rebuildVars>>

notResVars == <<detVars, runVars, execVars, truncVars, concVars, discVars, cmdVars, optVars, treeVars, serverVars, rebuildVars>>

notOptVars == <<detVars, runVars, execVars, truncVars, concVars, discVars, cmdVars, resVars, treeVars, serverVars, rebuildVars>>

notTreeVars == <<detVars, runVars, execVars, truncVars, concVars, discVars, cmdVars, resVars, optVars, serverVars, rebuildVars>>

notServerVars == <<detVars, runVars, execVars, truncVars, concVars, discVars, cmdVars, resVars, optVars, treeVars, rebuildVars>>

notRebuildVars == <<detVars, runVars, execVars, truncVars, concVars, discVars, cmdVars, resVars, optVars, treeVars, serverVars>>

vars == <<detVars, runVars, execVars, truncVars, concVars, discVars, cmdVars, resVars, optVars, treeVars, serverVars, rebuildVars>>

----------------------------------------------------------------------------
(* Bounds of the model *)

\* at most this many entries exist in the probed directory
MaxEntries == 2

\* runner_priority lists of at most this length are explored
MaxPriority == 2

\* a spawned task process is followed for at most this many clock ticks
MaxTicks == 2

\* a child program makes at most this many writes
MaxWrites == 2

\* max_output_size ranges over 0..MaxOutputSize
MaxOutputSize == 2

\* a pipe holds at most this many bytes: everything an explored program
\* writes fits, as it does in the 64 KiB pipe of the kernel
PipeCapacity == 4

\* read_and_truncate is applied to streams of at most this many bytes
MaxContent == 3

\* a program that does not exist is called with at most this many arguments
MaxArgs == 2

\* each of two concurrent children makes at most this many writes
MaxConcWrites == 2

----------------------------------------------------------------------------
(* Generic helpers *)

\* Option::None for string-valued options
NoneStr == "<none>"

\* all sequences over S of length at most n
SeqsUpTo(S, n) == UNION {[1..k -> S] : k \in 0..n}

\* the elements of a sequence
Range(s) == {s[i] : i \in DOMAIN s}

\* Option<T>: None is the empty sequence, Some(x) the one-element sequence
None == <<>>
Some(x) == <<x>>

----------------------------------------------------------------------------
(* Detector: src/runner/detect.rs *)

\* enum RunnerType { Make, Just, Script(String) }
Make == [type |-> "Make", value |-> ""]
Just == [type |-> "Just", value |-> ""]
Script(s) == [type |-> "Script", value |-> s]

\* Option<RunnerType>::None
NoRunner == [type |-> "None", value |-> ""]

\* the file names check_makefile probes, in order
MakefileNames == <<"Makefile", "makefile", "GNUmakefile">>

\* the file names check_justfile probes, in order
JustfileNames == <<"justfile", "Justfile", ".justfile">>

\* script file names that may exist in the directory
ScriptFiles == {"run.sh", "build.sh"}

\* values of config.runners.script.scripts that are explored
ScriptLists == { <<"./run.sh", "./build.sh">>, <<"build.sh", "run.sh">> }

\* entries of runner_priority that are explored ("docker" is an unknown name)
PriorityNames == {"make", "just", "script", "docker"}

FileNames == Range(MakefileNames) \cup Range(JustfileNames) \cup ScriptFiles

\* a directory entry: absent, a regular file without any executable bit
\* ("file"), a regular file with mode & 0o111 != 0 ("exec"), a subdirectory
EntryKinds == {"absent", "file", "exec", "dir"}

\* script_name.strip_prefix("./").unwrap_or(script_name)
strip_prefix(s) ==
    CASE s = "./run.sh" -> "run.sh"
      [] s = "./build.sh" -> "build.sh"
      [] OTHER -> s

\* format!("./{}", script_name_clean)
dot_slash(s) ==
    CASE s = "run.sh" -> "./run.sh"
      [] s = "build.sh" -> "./build.sh"
      [] OTHER -> s

\* mutant: path.exists() alone, a subdirectory of that name passes
is_file_exists_only(d, name) == d[name] # "absent"

\* path.exists() && path.is_file()
is_file(d, name) == d[name] \in {"file", "exec"}

\* mutant: the permission check is skipped
is_executable_unchecked(d, name) == TRUE

\* permissions.mode() & 0o111 != 0
is_executable(d, name) == d[name] = "exec"

\* DetectionResult::default()
DetectionDefault ==
    [detected |-> NoRunner,
     available |-> <<>>,
     files_found |-> [makefile |-> FALSE, makefile_path |-> NoneStr,
                      justfile |-> FALSE, justfile_path |-> NoneStr,
                      scripts |-> <<>>]]

\* the first name of names[i..] that is a regular file in d, or NoneStr
RECURSIVE first_file(_, _, _)
first_file(d, names, i) ==
    IF i > Len(names) THEN NoneStr
    ELSE IF is_file(d, names[i]) THEN names[i]
    ELSE first_file(d, names, i + 1)

\* mutant: the last runner with evidence replaces an earlier one
set_detected_last_wins(result, r) == r

\* result.detected = Some(r) unless a runner is already detected
set_detected(result, r) ==
    IF result.detected = NoRunner THEN r ELSE result.detected

check_makefile(d, result) ==
    LET name == first_file(d, MakefileNames, 1) IN
    IF name = NoneStr THEN result
    ELSE [result EXCEPT
            !.files_found.makefile = TRUE,
            !.files_found.makefile_path = name,
            !.available = Append(result.available, Make),
            !.detected = set_detected(result, Make)]

check_justfile(d, result) ==
    LET name == first_file(d, JustfileNames, 1) IN
    IF name = NoneStr THEN result
    ELSE [result EXCEPT
            !.files_found.justfile = TRUE,
            !.files_found.justfile_path = name,
            !.available = Append(result.available, Just),
            !.detected = set_detected(result, Just)]

\* an iteration that reports every regular file, whatever its mode
check_script_any_mode(d, script_name, result) ==
    LET script_name_clean == strip_prefix(script_name)
        reported_path == dot_slash(script_name_clean)
    IN  IF is_file(d, script_name_clean)
        THEN [result EXCEPT
                !.files_found.scripts = Append(result.files_found.scripts, reported_path),
                !.available = Append(result.available, Script(reported_path)),
                !.detected = set_detected(result, Script(reported_path))]
        ELSE result

\* one iteration of check_scripts' loop, for the candidate script_name
check_script(d, script_name, result) ==
    LET script_name_clean == strip_prefix(script_name)
        script_path == dot_slash(script_name_clean)
    IN  IF is_file(d, script_name_clean) /\ is_executable(d, script_name_clean)
        THEN [result EXCEPT
                !.files_found.scripts = Append(result.files_found.scripts, script_path),
                !.available = Append(result.available, Script(script_path)),
                !.detected = set_detected(result, Script(script_path))]
        ELSE result

RECURSIVE check_scripts_from(_, _, _, _)
check_scripts_from(d, scripts, i, result) ==
    IF i > Len(scripts) THEN result
    ELSE check_scripts_from(d, scripts, i + 1, check_script(d, scripts[i], result))

check_scripts(d, cfg, result) == check_scripts_from(d, cfg.scripts, 1, result)

\* the body of detect_runner's loop for one entry of runner_priority
detect_step(d, cfg, runner, result) ==
    CASE runner = "make" -> check_makefile(d, result)
      [] runner = "just" -> check_justfile(d, result)
      [] runner = "script" -> check_scripts(d, cfg, result)
      [] OTHER -> result

RECURSIVE detect_from(_, _, _, _)
detect_from(d, cfg, i, result) ==
    IF i > Len(cfg.runner_priority) THEN result
    ELSE detect_from(d, cfg, i + 1, detect_step(d, cfg, cfg.runner_priority[i], result))

detect_runner(d, cfg) == detect_from(d, cfg, 1, DetectionDefault)

\* the directories explored: at most MaxEntries entries exist
Directories ==
    {d \in [FileNames -> EntryKinds] :
        Cardinality({n \in FileNames : d[n] # "absent"}) <= MaxEntries}

Configs ==
    [runner_priority : SeqsUpTo(PriorityNames, MaxPriority), scripts : ScriptLists]

InitDetectVars ==
    /\ dir \in Directories
    /\ config \in Configs
    /\ det_pc = "input"
    /\ detection = DetectionDefault

\* a caller invokes detect_runner(dir, config)
DetectRunner ==
    /\ det_pc = "input"
    /\ detection' = detect_runner(dir, config)
    /\ det_pc' = "done"
    /\ UNCHANGED <<dir, config>>
    /\ UNCHANGED notDetVars

NextDetect == DetectRunner

\* the detector at rest, for the specifications of the other components
DetectIdle ==
    /\ dir = [n \in FileNames |-> "absent"]
    /\ config = [runner_priority |-> <<>>, scripts |-> <<"./run.sh", "./build.sh">>]
    /\ det_pc = "input"
    /\ detection = DetectionDefault

----------------------------------------------------------------------------
(* Text: bytes and phrases *)

\* one-byte characters, the two bytes of U+00E9 (0xC3 0xA9), and a byte that
\* occurs in no UTF-8 encoding (0xFF)
Bytes == {"a", "\n", "c3", "a9", "ff"}

\* the UTF-8 encoding of U+FFFD REPLACEMENT CHARACTER
Replacement == <<"ef", "bf", "bd">>

\* String::from_utf8_lossy: every byte that is not part of a well-formed
\* character becomes U+FFFD; phrases are well-formed text
RECURSIVE from_utf8_lossy(_)
from_utf8_lossy(b) ==
    IF b = <<>> THEN <<>>
    ELSE IF b[1] = "c3" /\ Len(b) >= 2 /\ b[2] = "a9"
         THEN <<"c3", "a9">> \o from_utf8_lossy(Tail(Tail(b)))
    ELSE IF b[1] \in {"c3", "a9", "ff"}
         THEN Replacement \o from_utf8_lossy(Tail(b))
    ELSE <<b[1]>> \o from_utf8_lossy(Tail(b))

\* str::contains(phrase), phrases being indivisible units of the text
contains(text, phrase) == \E i \in DOMAIN text : text[i] = phrase

----------------------------------------------------------------------------
(* Runners: src/runner/traits.rs, makefile.rs, justfile.rs, script.rs *)

Runners == {"make", "just", "script"}

\* RunnerResult<Vec<TaskInfo>>, a TaskInfo standing for its name
OkTasks(l) == [ok |-> TRUE, tasks |-> l, err |-> ""]
ErrTasks(e) == [ok |-> FALSE, tasks |-> <<>>, err |-> e]

\* the (sorted) task lists a discovery strategy may yield
TaskLists == {<<>>, <<"build">>, <<"build", "test">>}

\* the stderr phrases execute_make / execute_just / execute_script look for
NotFoundPhrases(runner) ==
    CASE runner = "make" -> {"No rule to make target"}
      [] runner = "just" -> {"Justfile does not contain recipe",
                             "Just was unable to find", "Unknown recipe"}
      [] runner = "script" -> {"Unknown command", "not a valid command",
                               "Invalid command", "unrecognized command"}

\* mutant: the phrase test is dropped, every failure is a not-found
not_found_always(runner, stderr) == TRUE

not_found(runner, stderr) ==
    \E phrase \in NotFoundPhrases(runner) : contains(stderr, phrase)

(* What the directory holds for one runner.  marker: find_makefile /
   find_justfile / find_script finds the file.  parse: the outcome of parsing
   the file directly (parse_makefile, parse_justfile, list_via_parse).  tool:
   the outcome of asking the backend (make -pRrq, just --dump, script --help).
   tool2: the outcome of `just --list` (list_via_just). *)
MakeParse == {OkTasks(l) : l \in TaskLists} \cup {ErrTasks("Io")}
MakeTool == {OkTasks(l) : l \in TaskLists} \cup {ErrTasks("SpawnFailed")}
JustTool == {OkTasks(l) : l \in TaskLists}
                \cup {ErrTasks("SpawnFailed"), ErrTasks("StatusFailed"), ErrTasks("Config")}
JustTool2 == {OkTasks(l) : l \in TaskLists}
                \cup {ErrTasks("SpawnFailed"), ErrTasks("CommandFailed")}
NoTool == ErrTasks("unused")

NoMarkerDir ==
    [marker |-> FALSE, entry |-> "absent", parse |-> NoTool, tool |-> NoTool,
     tool2 |-> NoTool]

\* find_makefile / find_justfile: the path exists and is a regular file
find_file(entry) == entry \in {"file", "exec"}

\* a find_script that does not look at the permission bits
find_script_any_mode(entry) == entry \in {"file", "exec"}

\* find_script: the path exists, is a regular file and has an execute bit
find_script(entry) == entry = "exec"

\* whether the runner finds its marker file, for the kind of directory entry
\* under the marker's name
find_marker(runner, entry) ==
    IF runner = "script" THEN find_script(entry) ELSE find_file(entry)

\* the kinds of entry explored under the marker's name (for Make and Just the
\* permission bits are never read, so "exec" behaves as "file")
MarkerEntries(runner) ==
    IF runner = "script" THEN EntryKinds ELSE EntryKinds \ {"exec"}

\* what the backend's strategies would produce in a directory
Backends(runner) ==
    CASE runner = "make" ->
            [parse : MakeParse, tool : MakeTool, tool2 : {NoTool}]
      [] runner = "just" ->
            {d \in [parse : MakeParse, tool : JustTool,
                    tool2 : JustTool2 \cup {NoTool}] :
                (d.tool = ErrTasks("StatusFailed")) <=> (d.tool2 # NoTool)}
      [] runner = "script" ->
            [parse : MakeParse, tool : MakeTool, tool2 : {NoTool}]

DirStates(runner) ==
    UNION {IF find_marker(runner, k)
           THEN {[marker |-> TRUE, entry |-> k, parse |-> b.parse,
                  tool |-> b.tool, tool2 |-> b.tool2] : b \in Backends(runner)}
           ELSE {[NoMarkerDir EXCEPT !.entry = k]} :
           k \in MarkerEntries(runner)}

NoRunnerDetected == ErrTasks("NoRunnerDetected")

(* list_tasks runs until it blocks in a Command::output() or returns.
   blocked: the last strategy of tried is a backend program that was spawned
   and has not ended; otherwise result is what list_tasks returned *)
Blocked(tried) == [blocked |-> TRUE, result |-> NoTool, tried |-> tried]

Returned(result, tried) == [blocked |-> FALSE, result |-> result, tried |-> tried]

\* a list_tasks that never falls back to the database dump
make_list_tasks_no_fallback(d) ==
    IF d.marker THEN Returned(d.parse, <<"parse_makefile">>)
    ELSE Returned(NoRunnerDetected, <<>>)

\* MakefileRunner::list_tasks up to the Command::output() of
\* list_targets_via_make
make_list_tasks(d) ==
    IF ~d.marker THEN Returned(NoRunnerDetected, <<>>)
    ELSE IF d.parse.ok /\ d.parse.tasks # <<>>
         THEN Returned(d.parse, <<"parse_makefile">>)
    ELSE IF d.tool = ErrTasks("SpawnFailed")
         THEN Returned(d.tool, <<"parse_makefile", "list_targets_via_make">>)
    ELSE Blocked(<<"parse_makefile", "list_targets_via_make">>)

\* list_targets_via_make after output() returned: its result is the result of
\* list_tasks
make_list_tasks_resume(d, tried, out) == Returned(out, tried)

\* the fallback arm of JustfileRunner::list_tasks: the justfile is looked up
\* again and parsed
just_fallback(d, tried) ==
    IF d.marker THEN Returned(d.parse, Append(tried, "parse_justfile"))
    ELSE Returned(NoRunnerDetected, tried)

\* JustfileRunner::list_tasks up to the Command::output() of list_via_dump
just_list_tasks(d) ==
    IF ~d.marker THEN Returned(NoRunnerDetected, <<>>)
    ELSE IF d.tool = ErrTasks("SpawnFailed")
         THEN just_fallback(d, <<"list_via_dump">>)
    ELSE Blocked(<<"list_via_dump">>)

\* list_via_dump / list_via_just after output() returned with outcome out:
\* a dump that exited unsuccessfully runs list_via_just, a result with
\* tasks is returned, anything else takes the fallback arm
just_list_tasks_resume(d, tried, out) ==
    IF tried[Len(tried)] = "list_via_dump" /\ out = ErrTasks("StatusFailed")
    THEN IF d.tool2 = ErrTasks("SpawnFailed")
         THEN just_fallback(d, Append(tried, "list_via_just"))
         ELSE Blocked(Append(tried, "list_via_just"))
    ELSE IF out.ok /\ out.tasks # <<>> THEN Returned(out, tried)
    ELSE just_fallback(d, tried)

\* ScriptRunner::list_via_parse as list_tasks calls it: find_script, then
\* the static parse of the file
script_fallback(d, tried) ==
    IF d.marker THEN Returned(d.parse, Append(tried, "list_via_parse"))
    ELSE Returned(NoRunnerDetected, Append(tried, "list_via_parse"))

\* ScriptRunner::list_tasks up to the Command::output() of list_via_help
script_list_tasks(d) ==
    IF ~d.marker THEN Returned(NoRunnerDetected, <<>>)
    ELSE IF d.tool = ErrTasks("SpawnFailed")
         THEN script_fallback(d, <<"list_via_help">>)
    ELSE Blocked(<<"list_via_help">>)

\* list_via_help after output() returned with outcome out
script_list_tasks_resume(d, tried, out) ==
    IF out.ok /\ out.tasks # <<>> THEN Returned(out, tried)
    ELSE script_fallback(d, tried)

\* Runner::list_tasks from the call to its first Command::output() or return
list_tasks_begin(runner, d) ==
    CASE runner = "make" -> make_list_tasks(d)
      [] runner = "just" -> just_list_tasks(d)
      [] runner = "script" -> script_list_tasks(d)

\* Runner::list_tasks from the return of a Command::output() to the next
\* one or to its return
list_tasks_resume(runner, d, tried, out) ==
    CASE runner = "make" -> make_list_tasks_resume(d, tried, out)
      [] runner = "just" -> just_list_tasks_resume(d, tried, out)
      [] runner = "script" -> script_list_tasks_resume(d, tried, out)

\* what the backend program of a strategy produces on the directory it was
\* started in
tool_of(d, strategy) == IF strategy = "list_via_just" THEN d.tool2 ELSE d.tool

\* the outcomes of a backend program of a strategy that ran
ToolOutcomes(strategy) ==
    CASE strategy = "list_via_dump" -> JustTool \ {ErrTasks("SpawnFailed")}
      [] strategy = "list_via_just" -> JustTool2 \ {ErrTasks("SpawnFailed")}
      [] OTHER -> MakeTool \ {ErrTasks("SpawnFailed")}

\* what a running backend program may produce when it reads directory d: the
\* outcome the directory holds for it, and any outcome when the directory was
\* changed into one that holds none (the file is gone, or is one the program
\* would not have been started on)
tool_reads(d, strategy) ==
    IF d.marker /\ tool_of(d, strategy) \in ToolOutcomes(strategy)
    THEN {tool_of(d, strategy)}
    ELSE ToolOutcomes(strategy)

\* list_tasks run to its end on a directory that does not change
RECURSIVE list_tasks_run(_, _, _)
list_tasks_run(runner, d, step) ==
    IF ~step.blocked THEN step
    ELSE list_tasks_run(runner, d,
            list_tasks_resume(runner, d, step.tried,
                              tool_of(d, step.tried[Len(step.tried)])))

\* Runner::list_tasks on a directory that does not change
list_tasks(runner, d) == list_tasks_run(runner, d, list_tasks_begin(runner, d)).result

\* the discovery strategies list_tasks runs on d, in the order it runs them
strategies(runner, d) == list_tasks_run(runner, d, list_tasks_begin(runner, d)).tried

\* the strategies that run a backend program
SpawningStrategies ==
    {"list_targets_via_make", "list_via_dump", "list_via_just", "list_via_help"}

\* the number of subprocesses list_tasks spawns on d: one for every strategy
\* it runs whose Command::output() does not fail to spawn
spawned(runner, d) ==
    Cardinality({i \in DOMAIN strategies(runner, d) :
        /\ strategies(runner, d)[i] \in SpawningStrategies
        /\ tool_of(d, strategies(runner, d)[i]) # ErrTasks("SpawnFailed")})

\* list_tasks has not been called
NoListing ==
    [result |-> NoTool, tried |-> <<>>, caller |-> "none", dir |-> NoMarkerDir,
     tool |-> NoTool]

\* mutant: the task list is dropped from the error
available_names_empty(listing) == <<>>

\* self.list_tasks(dir).unwrap_or_default(), mapped to the task names
available_names(listing) == IF listing.ok THEN listing.tasks ELSE <<>>

\* RunnerResult<RunResult>: kind "Ok" carries a RunResult, the other kinds
\* are the TaskError variants run_task produces
NoResult ==
    [kind |-> "none", success |-> FALSE, exit_code |-> None,
     stdout |-> <<>>, stderr |-> <<>>, task |-> "", available |-> <<>>]

\* RunResult::success
RunResult_success(stdout) ==
    [NoResult EXCEPT !.kind = "Ok", !.success = TRUE, !.exit_code = Some(0),
                     !.stdout = stdout]

\* mutant: a failed run is reported as a CommandFailed error
RunResult_failed_as_error(exit_code, stdout, stderr) ==
    [NoResult EXCEPT !.kind = "CommandFailed", !.exit_code = exit_code,
                     !.stderr = stderr]

\* RunResult::failed
RunResult_failed(exit_code, stdout, stderr) ==
    [NoResult EXCEPT !.kind = "Ok", !.success = FALSE, !.exit_code = exit_code,
                     !.stdout = stdout, !.stderr = stderr]

TaskError(kind) == [NoResult EXCEPT !.kind = kind]

TaskNotFound(task, available) ==
    [NoResult EXCEPT !.kind = "TaskNotFound", !.task = task, !.available = available]

\* Option<Duration> values of RunOptions.timeout (in ticks)
Timeouts == {None, Some(1)}

TaskNames == {"build", "deploy"}

ExitCodes == {Some(0), Some(2), None}

Stdouts == {<<>>, <<"a", "\n">>, <<"ff">>}

Stderrs ==
    {<<>>, <<"ff", "\n">>, <<"a", "unknown command", "\n">>}
        \cup {<<"a", p, "\n">> : p \in UNION {NotFoundPhrases(r) : r \in Runners}}

\* the process outputs explored: every stderr with one stdout, and every
\* stdout with an empty stderr, under every exit status
Outputs ==
    [code : ExitCodes, stdout : {<<"a", "\n">>}, stderr : Stderrs]
        \cup [code : ExitCodes, stdout : Stdouts, stderr : {<<>>}]

NoOutput == [code |-> None, stdout |-> <<>>, stderr |-> <<>>]

InitRunnerVars ==
    /\ rn_runner \in Runners
    /\ rn_dir \in DirStates(rn_runner)
    /\ rn_dir0 = rn_dir
    /\ rn_installed \in BOOLEAN
    /\ rn_task \in TaskNames
    /\ rn_options \in [timeout : Timeouts]
    /\ rn_pc = "idle"
    /\ rn_elapsed = 0
    /\ rn_output = NoOutput
    /\ rn_result = NoResult
    /\ rn_listing = NoListing
    /\ rn_spawned = 0

\* run_task finds no Makefile / justfile / executable script
RunTaskNoRunner ==
    /\ rn_pc = "idle"
    /\ ~rn_dir.marker
    /\ rn_result' = TaskError("NoRunnerDetected")
    /\ rn_pc' = "done"
    /\ UNCHANGED notRunVars
    /\ UNCHANGED <<rn_runner, rn_dir, rn_dir0, rn_installed, rn_task, rn_options,
                   rn_elapsed, rn_output,
                   rn_listing, rn_spawned>>

\* cmd.output() cannot spawn the backend program
RunTaskSpawnFailed ==
    /\ rn_pc = "idle"
    /\ rn_dir.marker
    /\ ~rn_installed
    /\ rn_result' = TaskError("SpawnFailed")
    /\ rn_pc' = "done"
    /\ UNCHANGED notRunVars
    /\ UNCHANGED <<rn_runner, rn_dir, rn_dir0, rn_installed, rn_task, rn_options,
                   rn_elapsed, rn_output,
                   rn_listing, rn_spawned>>

\* cmd.output() spawns the process and blocks until it ends
RunTaskSpawn ==
    /\ rn_pc = "idle"
    /\ rn_dir.marker
    /\ rn_installed
    /\ rn_pc' = "running"
    /\ rn_spawned' = 1
    /\ UNCHANGED notRunVars
    /\ UNCHANGED <<rn_runner, rn_dir, rn_dir0, rn_installed, rn_task, rn_options,
                   rn_elapsed, rn_output, rn_result,
                   rn_listing>>

\* time passes while the process runs
Tick ==
    /\ rn_pc = "running"
    /\ rn_elapsed < MaxTicks
    /\ rn_elapsed' = rn_elapsed + 1
    /\ UNCHANGED notRunVars
    /\ UNCHANGED <<rn_runner, rn_dir, rn_dir0, rn_installed, rn_task, rn_options,
                   rn_pc, rn_output, rn_result,
                   rn_listing, rn_spawned>>

\* the directory changes while run_task or list_tasks waits for a process
ModifyDir ==
    /\ rn_pc \in {"running", "tool_started", "tool_read"}
    /\ rn_dir = rn_dir0
    /\ rn_dir' \in DirStates(rn_runner) \ {rn_dir}
    /\ UNCHANGED notRunVars
    /\ UNCHANGED <<rn_runner, rn_dir0, rn_installed, rn_task, rn_options,
                   rn_pc, rn_elapsed, rn_output, rn_result,
                   rn_listing, rn_spawned>>

\* the process ends and cmd.output() returns: a success and a failure
\* without the not-found phrasing are returned at once; otherwise
\* self.list_tasks(dir) is called and runs until it returns or blocks in the
\* Command::output() of a backend program
ProcessExit ==
    /\ rn_pc = "running"
    /\ \E output \in Outputs :
          LET stdout == from_utf8_lossy(output.stdout)
              stderr == from_utf8_lossy(output.stderr)
              step == list_tasks_begin(rn_runner, rn_dir)
          IN  /\ rn_output' = output
              /\ IF output.code = Some(0)
                 THEN /\ rn_result' = RunResult_success(stdout)
                      /\ rn_pc' = "done"
                      /\ UNCHANGED <<rn_listing, rn_spawned>>
                 ELSE IF ~not_found(rn_runner, stderr)
                 THEN /\ rn_result' = RunResult_failed(output.code, stdout, stderr)
                      /\ rn_pc' = "done"
                      /\ UNCHANGED <<rn_listing, rn_spawned>>
                 ELSE /\ rn_listing' =
                            [result |-> step.result, tried |-> step.tried,
                             caller |-> "run_task", dir |-> rn_dir, tool |-> NoTool]
                      /\ IF step.blocked
                         THEN /\ rn_pc' = "tool_started"
                              /\ rn_spawned' = rn_spawned + 1
                              /\ UNCHANGED rn_result
                         ELSE /\ rn_pc' = "done"
                              /\ rn_result' =
                                    TaskNotFound(rn_task, available_names(step.result))
                              /\ UNCHANGED rn_spawned
    /\ UNCHANGED notRunVars
    /\ UNCHANGED <<rn_runner, rn_dir, rn_dir0, rn_installed, rn_task, rn_options,
                   rn_elapsed>>

\* list_tasks is called on the directory and runs until it returns or blocks
\* in the Command::output() of a backend program
ListTasks ==
    /\ rn_pc = "idle"
    /\ LET step == list_tasks_begin(rn_runner, rn_dir)
       IN  /\ rn_listing' =
                 [result |-> step.result, tried |-> step.tried,
                  caller |-> "list_tasks", dir |-> rn_dir, tool |-> NoTool]
           /\ rn_spawned' = rn_spawned + (IF step.blocked THEN 1 ELSE 0)
           /\ rn_pc' = IF step.blocked THEN "tool_started" ELSE "listed"
    /\ UNCHANGED notRunVars
    /\ UNCHANGED <<rn_runner, rn_dir, rn_dir0, rn_installed, rn_task, rn_options,
                   rn_elapsed, rn_output, rn_result>>

\* the backend program list_tasks waits for reads the directory
ToolReadsDir ==
    /\ rn_pc = "tool_started"
    /\ \E out \in tool_reads(rn_dir, rn_listing.tried[Len(rn_listing.tried)]) :
          rn_listing' = [rn_listing EXCEPT !.tool = out]
    /\ rn_pc' = "tool_read"
    /\ UNCHANGED notRunVars
    /\ UNCHANGED <<rn_runner, rn_dir, rn_dir0, rn_installed, rn_task, rn_options,
                   rn_elapsed, rn_output, rn_result, rn_spawned>>

\* the backend program ends and Command::output() returns: list_tasks goes on
\* until it blocks in the next Command::output() or returns, to its caller
\* or into the TaskNotFound error of run_task
ToolExit ==
    /\ rn_pc = "tool_read"
    /\ LET step == list_tasks_resume(rn_runner, rn_dir, rn_listing.tried,
                                     rn_listing.tool)
       IN  /\ rn_listing' = [rn_listing EXCEPT !.result = step.result,
                                               !.tried = step.tried,
                                               !.tool = NoTool]
           /\ IF step.blocked
              THEN /\ rn_pc' = "tool_started"
                   /\ rn_spawned' = rn_spawned + 1
                   /\ UNCHANGED rn_result
              ELSE /\ UNCHANGED rn_spawned
                   /\ IF rn_listing.caller = "run_task"
                      THEN /\ rn_pc' = "done"
                           /\ rn_result' =
                                 TaskNotFound(rn_task, available_names(step.result))
                      ELSE /\ rn_pc' = "listed"
                           /\ UNCHANGED rn_result
    /\ UNCHANGED notRunVars
    /\ UNCHANGED <<rn_runner, rn_dir, rn_dir0, rn_installed, rn_task, rn_options,
                   rn_elapsed, rn_output>>

RunnerIdle ==
    /\ rn_runner = "make"
    /\ rn_dir = NoMarkerDir
    /\ rn_dir0 = NoMarkerDir
    /\ rn_installed = TRUE
    /\ rn_task = "build"
    /\ rn_options = [timeout |-> None]
    /\ rn_pc = "idle"
    /\ rn_elapsed = 0
    /\ rn_output = NoOutput
    /\ rn_result = NoResult
    /\ rn_listing = NoListing
    /\ rn_spawned = 0

NextRunner ==
    \/ RunTaskNoRunner
    \/ RunTaskSpawnFailed
    \/ RunTaskSpawn
    \/ Tick
    \/ ModifyDir
    \/ ProcessExit
    \/ ListTasks
    \/ ToolReadsDir
    \/ ToolExit

----------------------------------------------------------------------------
(* Executor: src/executor/runner.rs *)

\* the two captured streams of a child
Streams == {"stdout", "stderr"}

\* TRUNCATION_MARKER = "\n... [output truncated] ...\n", byte by byte
TRUNCATION_MARKER ==
    <<"\n", ".", ".", ".", " ", "[", "o", "u", "t", "p", "u", "t", " ",
      "t", "r", "u", "n", "c", "a", "t", "e", "d", "]", " ", ".", ".", ".", "\n">>

\* String::from_utf8 inside read_line succeeds: "c3" "a9" is the one
\* two-byte character of the alphabet, a lone "c3" or "a9" and every "ff"
\* are ill-formed
RECURSIVE is_utf8(_)
is_utf8(b) ==
    IF b = <<>> THEN TRUE
    ELSE IF b[1] = "c3"
         THEN Len(b) >= 2 /\ b[2] = "a9" /\ is_utf8(Tail(Tail(b)))
    ELSE IF b[1] \in {"a9", "ff"} THEN FALSE
    ELSE is_utf8(Tail(b))

\* str::is_char_boundary for a well-formed line: byte offset k does not
\* fall between the two bytes of a character
is_char_boundary(line, k) ==
    \/ k = 0
    \/ k = Len(line)
    \/ k < Len(line) /\ line[k + 1] # "a9"

\* the bytes read_line appends: through the first "\n", or everything left
next_line(b) ==
    LET nl == {i \in DOMAIN b : b[i] = "\n"}
    IN  IF nl = {} THEN b
        ELSE SubSeq(b, 1, CHOOSE i \in nl : \A j \in nl : i <= j)

\* usize::saturating_sub
saturating_sub(a, b) == IF a > b THEN a - b ELSE 0

\* usize::min
min(a, b) == IF a < b THEN a ELSE b

\* the locals of read_and_truncate at the top of its loop.  state is
\* "reading" in the loop, "done" after a break (the function returns
\* (output, truncated)), "panicked" when the task unwound; pending is what
\* read_line has buffered of a line that is not complete yet
NewDrain ==
    [state |-> "reading", output |-> <<>>, truncated |-> FALSE, pending |-> <<>>]

\* a drain task that never ran
NoDrain ==
    [state |-> "idle", output |-> <<>>, truncated |-> FALSE, pending |-> <<>>]

\* a loop body that puts each line in front of what was captured before
read_line_step_prepend(acc, line, max_size) ==
    IF ~is_utf8(line) THEN [acc EXCEPT !.state = "done"]
    ELSE IF Len(acc.output) + Len(line) > max_size
         THEN LET remaining == saturating_sub(max_size, Len(acc.output))
                  cut == min(remaining, Len(line))
              IN  IF remaining > 0 /\ ~is_char_boundary(line, cut)
                  THEN [acc EXCEPT !.state = "panicked"]
                  ELSE [acc EXCEPT
                          !.state = "done",
                          !.output = (IF remaining > 0
                                      THEN SubSeq(line, 1, cut) ELSE <<>>)
                                     \o acc.output \o TRUNCATION_MARKER,
                          !.truncated = TRUE]
    ELSE [acc EXCEPT !.output = line \o acc.output]

\* one turn of the loop body for a line read_line produced: the Err arm
\* (ill-formed UTF-8) breaks; the truncate arm slices the line at the
\* remaining budget, which panics off a char boundary, appends the marker
\* and breaks; otherwise the line is appended
read_line_step(acc, line, max_size) ==
    IF ~is_utf8(line) THEN [acc EXCEPT !.state = "done"]
    ELSE IF Len(acc.output) + Len(line) > max_size
         THEN LET remaining == saturating_sub(max_size, Len(acc.output))
                  cut == min(remaining, Len(line))
              IN  IF remaining > 0 /\ ~is_char_boundary(line, cut)
                  THEN [acc EXCEPT !.state = "panicked"]
                  ELSE [acc EXCEPT
                          !.state = "done",
                          !.output = acc.output
                                     \o (IF remaining > 0
                                         THEN SubSeq(line, 1, cut) ELSE <<>>)
                                     \o TRUNCATION_MARKER,
                          !.truncated = TRUE]
    ELSE [acc EXCEPT !.output = acc.output \o line]

\* the loop of read_and_truncate run over the bytes data that the reader
\* can deliver now; eof tells whether the write end is closed behind them.
\* Without eof an incomplete last line stays pending (read_line is Pending)
RECURSIVE read_lines(_, _, _, _)
read_lines(acc, data, eof, max_size) ==
    IF acc.state # "reading" THEN [acc EXCEPT !.pending = <<>>]
    ELSE IF data = <<>>
         THEN IF eof THEN [acc EXCEPT !.state = "done", !.pending = <<>>]
              ELSE [acc EXCEPT !.pending = <<>>]
    ELSE LET line == next_line(data)
         IN  IF line[Len(line)] # "\n" /\ ~eof
             THEN [acc EXCEPT !.pending = data]
             ELSE read_lines(read_line_step(acc, line, max_size),
                             SubSeq(data, Len(line) + 1, Len(data)),
                             eof, max_size)

\* read_and_truncate over a reader that delivers content and then EOF
read_and_truncate(content, max_size) ==
    read_lines(NewDrain, content, TRUE, max_size)

\* what a child program does: it writes ops[1], ops[2], ... and then either
\* exits with code or (hangs) stays alive without writing; a program that
\* does not exist cannot be spawned
Chunks == { <<"a", "\n">>, <<"\n">>, <<"c3", "a9">>, <<"ff", "\n">> }

Writes == [stream : Streams, data : Chunks]

ProgramEnds == { [hangs |-> FALSE, code |-> 0], [hangs |-> FALSE, code |-> 3],
                 [hangs |-> TRUE, code |-> 0] }

\* the args slices passed with a program that does not exist
ArgWords == {"-v", "x"}

MissingProgram ==
    [exists |-> FALSE, program |-> "nonexistent_command", args |-> <<>>,
     ops |-> <<>>, hangs |-> FALSE, code |-> 0]

Programs ==
    { [exists |-> TRUE, program |-> "sh", args |-> <<"-c", "script">>,
       ops |-> o, hangs |-> e.hangs, code |-> e.code] :
          o \in SeqsUpTo(Writes, MaxWrites), e \in ProgramEnds }
    \cup { [MissingProgram EXCEPT !.args = a] : a \in SeqsUpTo(ArgWords, MaxArgs) }

\* the ExecOptions exec_command reads
ExecOptionsSet == [timeout : Timeouts, max_output_size : 0..MaxOutputSize]

\* the child process.  state: "none" before spawn, "running", "dying" (a
\* SIGKILL is on its way), "zombie" (terminated, not waited for), "reaped";
\* ip: the next op of its program; status: ExitStatus::code() once it has
\* terminated, None when a signal ended it; orphan: tokio's orphan queue
\* holds it
NoChild ==
    [state |-> "none", ip |-> 1, status |-> None, signal |-> "", orphan |-> FALSE]

\* an anonymous pipe: the bytes in it, whether the read end is still held by
\* the drain task and whether the child still holds the write end
ClosedPipe == [buf |-> <<>>, rd |-> FALSE, wr |-> FALSE]

OpenPipe == [buf |-> <<>>, rd |-> TRUE, wr |-> TRUE]

\* the child terminated: every write end it held is closed
close_writers(pipes) == [s \in Streams |-> [pipes[s] EXCEPT !.wr = FALSE]]

\* dropping a running child without kill_on_drop: it is left running and
\* handed to the orphan queue
drop_child_no_kill(child) ==
    IF child.state = "running" THEN [child EXCEPT !.orphan = TRUE]
    ELSE IF child.state = "zombie" THEN [child EXCEPT !.state = "reaped"]
    ELSE child

\* dropping the tokio Child of a command built with kill_on_drop(true): a
\* child that is still running is sent SIGKILL and handed to the orphan
\* queue, a terminated one is reaped by the try_wait of the drop, a child
\* already waited for is left alone
drop_child(child) ==
    IF child.state = "running"
    THEN [child EXCEPT !.state = "dying", !.signal = "SIGKILL", !.orphan = TRUE]
    ELSE IF child.state = "zombie" THEN [child EXCEPT !.state = "reaped"]
    ELSE child

\* what exec_command returned
NoExecResult ==
    [kind |-> "none", success |-> FALSE, exit_code |-> None,
     stdout |-> <<>>, stdout_truncated |-> FALSE,
     stderr |-> <<>>, stderr_truncated |-> FALSE, timeout_secs |-> None,
     command |-> <<>>]

\* [T]::join: the items with sep between neighbours
RECURSIVE join(_, _)
join(items, sep) ==
    IF items = <<>> THEN <<>>
    ELSE IF Len(items) = 1 THEN items
    ELSE <<items[1], sep>> \o join(Tail(items), sep)

\* a rendering that leaves the arguments out
command_str_program_only(program, args) == <<program, " ">>

\* command_str = format!("{} {}", program, args.join(" ")), as the sequence
\* of its pieces
command_str(program, args) == <<program, " ">> \o join(args, " ")

\* Ok(ExecResult { .. }) built from the WaitResult
ExecResult(status, drains) ==
    [kind |-> "Ok", success |-> (status = Some(0)), exit_code |-> status,
     stdout |-> drains["stdout"].output,
     stdout_truncated |-> drains["stdout"].truncated,
     stderr |-> drains["stderr"].output,
     stderr_truncated |-> drains["stderr"].truncated, timeout_secs |-> None,
     command |-> <<>>]

\* Err(TaskError::SpawnFailed), Err(TaskError::Io), Err(TaskError::Timeout)
ExecError(kind, command, timeout) ==
    [NoExecResult EXCEPT !.kind = kind, !.command = command,
                         !.timeout_secs = timeout]

\* one poll of the wait_for_output future from the await point stage
\* ("child": child.wait(), "stdout": stdout_handle, "stderr": stderr_handle).
\* It runs through every await that is ready: a terminated child is reaped,
\* a finished drain hands over its pair, a panicked drain is a JoinError that
\* `?` returns as TaskError::Io.  verdict: "pending", "ok" or "io"
wait_for_output(stage, child, drains) ==
    LET exited == stage = "child" /\ child.state = "zombie"
        c1 == IF exited THEN [child EXCEPT !.state = "reaped"] ELSE child
        s1 == IF exited THEN "stdout" ELSE stage
        s2 == IF s1 = "stdout" /\ drains["stdout"].state = "done"
              THEN "stderr" ELSE s1
        verdict ==
            IF s1 = "stdout" /\ drains["stdout"].state = "panicked" THEN "io"
            ELSE IF s2 = "stderr" /\ drains["stderr"].state = "panicked" THEN "io"
            ELSE IF s2 = "stderr" /\ drains["stderr"].state = "done" THEN "ok"
            ELSE "pending"
    IN  [stage |-> s2, child |-> c1, verdict |-> verdict]

InitExecVars ==
    /\ ex_program \in Programs
    /\ ex_options \in ExecOptionsSet
    /\ ex_pc = "init"
    /\ ex_stage = "child"
    /\ ex_child = NoChild
    /\ ex_pipe = [s \in Streams |-> ClosedPipe]
    /\ ex_drain = [s \in Streams |-> NoDrain]
    /\ ex_result = NoExecResult

\* exec_command, cmd.spawn() fails: SpawnFailed through `?`
ExecSpawnFailed ==
    /\ ex_pc = "init"
    /\ ~ex_program.exists
    /\ ex_pc' = "returned"
    /\ ex_result' = ExecError("SpawnFailed",
                           command_str(ex_program.program, ex_program.args), None)
    /\ UNCHANGED <<ex_program, ex_options, ex_stage, ex_child, ex_pipe, ex_drain>>
    /\ UNCHANGED notExecVars

\* exec_command up to its first suspension: the child is spawned with both
\* streams piped, wait_for_output takes the two read ends, spawns the two
\* drain tasks and awaits child.wait()
ExecSpawn ==
    /\ ex_pc = "init"
    /\ ex_program.exists
    /\ ex_pc' = "waiting"
    /\ ex_stage' = "child"
    /\ ex_child' = [NoChild EXCEPT !.state = "running"]
    /\ ex_pipe' = [s \in Streams |-> OpenPipe]
    /\ ex_drain' = [s \in Streams |-> NewDrain]
    /\ UNCHANGED <<ex_program, ex_options, ex_result>>
    /\ UNCHANGED notExecVars

\* the child writes its next chunk into a pipe that has room for it (it
\* blocks while the pipe is full)
ChildWrite ==
    /\ ex_child.state = "running"
    /\ ex_child.ip <= Len(ex_program.ops)
    /\ LET op == ex_program.ops[ex_child.ip]
       IN  /\ ex_pipe[op.stream].rd
           /\ Len(ex_pipe[op.stream].buf) + Len(op.data) <= PipeCapacity
           /\ ex_pipe' = [ex_pipe EXCEPT ![op.stream].buf = @ \o op.data]
    /\ ex_child' = [ex_child EXCEPT !.ip = @ + 1]
    /\ UNCHANGED <<ex_program, ex_options, ex_pc, ex_stage, ex_drain, ex_result>>
    /\ UNCHANGED notExecVars

\* the child writes into a pipe whose read end is closed: SIGPIPE, which a
\* spawned child has at its default disposition, terminates it
ChildSigpipe ==
    /\ ex_child.state = "running"
    /\ ex_child.ip <= Len(ex_program.ops)
    /\ ~ex_pipe[ex_program.ops[ex_child.ip].stream].rd
    /\ ex_child' = [ex_child EXCEPT !.state = "zombie", !.status = None,
                                    !.signal = "SIGPIPE"]
    /\ ex_pipe' = close_writers(ex_pipe)
    /\ UNCHANGED <<ex_program, ex_options, ex_pc, ex_stage, ex_drain, ex_result>>
    /\ UNCHANGED notExecVars

\* the child, having written everything, exits with its own code
ChildExit ==
    /\ ex_child.state = "running"
    /\ ex_child.ip > Len(ex_program.ops)
    /\ ~ex_program.hangs
    /\ ex_child' = [ex_child EXCEPT !.state = "zombie",
                                    !.status = Some(ex_program.code)]
    /\ ex_pipe' = close_writers(ex_pipe)
    /\ UNCHANGED <<ex_program, ex_options, ex_pc, ex_stage, ex_drain, ex_result>>
    /\ UNCHANGED notExecVars

\* the SIGKILL sent by the drop of the child takes effect
ChildKilled ==
    /\ ex_child.state = "dying"
    /\ ex_child' = [ex_child EXCEPT !.state = "zombie", !.status = None]
    /\ ex_pipe' = close_writers(ex_pipe)
    /\ UNCHANGED <<ex_program, ex_options, ex_pc, ex_stage, ex_drain, ex_result>>
    /\ UNCHANGED notExecVars

\* the drain task of stream s is woken (bytes arrived, or the write end was
\* closed) and runs read_and_truncate until read_line is pending again or
\* the function returns or panics; the reader is dropped with the task
Drain(s) ==
    /\ ex_drain[s].state = "reading"
    /\ ex_pipe[s].buf # <<>> \/ ~ex_pipe[s].wr
    /\ LET after == read_lines(ex_drain[s], ex_drain[s].pending \o ex_pipe[s].buf,
                               ~ex_pipe[s].wr, ex_options.max_output_size)
       IN  /\ ex_drain' = [ex_drain EXCEPT ![s] = after]
           /\ ex_pipe' = [ex_pipe EXCEPT ![s].buf = <<>>,
                                         ![s].rd = (after.state = "reading")]
    /\ UNCHANGED <<ex_program, ex_options, ex_pc, ex_stage, ex_child, ex_result>>
    /\ UNCHANGED notExecVars

DrainStdout == Drain("stdout")

DrainStderr == Drain("stderr")

\* a poll of exec_command in which wait_for_output completes: Ok(ExecResult)
\* or, for a drain task that panicked, Err(TaskError::Io)
ExecPollReady ==
    /\ ex_pc = "waiting"
    /\ LET w == wait_for_output(ex_stage, ex_child, ex_drain)
       IN  /\ w.verdict # "pending"
           /\ ex_stage' = w.stage
           /\ ex_child' = w.child
           /\ ex_result' = IF w.verdict = "ok"
                           THEN ExecResult(w.child.status, ex_drain)
                           ELSE ExecError("Io", <<>>, None)
    /\ ex_pc' = "returned"
    /\ UNCHANGED <<ex_program, ex_options, ex_pipe, ex_drain>>
    /\ UNCHANGED notExecVars

\* a poll in which wait_for_output moves to a later await and stays pending
ExecPollPending ==
    /\ ex_pc = "waiting"
    /\ LET w == wait_for_output(ex_stage, ex_child, ex_drain)
       IN  /\ w.verdict = "pending"
           /\ w.stage # ex_stage
           /\ ex_stage' = w.stage
           /\ ex_child' = w.child
    /\ UNCHANGED <<ex_program, ex_options, ex_pc, ex_pipe, ex_drain, ex_result>>
    /\ UNCHANGED notExecVars

\* a poll of tokio::time::timeout after the deadline: wait_for_output is
\* polled first and is still pending, so Elapsed is returned; the Err arm
\* returns TaskError::Timeout, which drops the future that owns the child
\* and the two JoinHandles (the drain tasks are detached, not cancelled)
ExecPollTimeout ==
    /\ ex_pc = "waiting"
    /\ ex_options.timeout # None
    /\ LET w == wait_for_output(ex_stage, ex_child, ex_drain)
       IN  /\ w.verdict = "pending"
           /\ ex_stage' = w.stage
           /\ ex_child' = drop_child(w.child)
    /\ ex_result' = ExecError("Timeout",
                           command_str(ex_program.program, ex_program.args),
                           ex_options.timeout)
    /\ ex_pc' = "returned"
    /\ UNCHANGED <<ex_program, ex_options, ex_pipe, ex_drain>>
    /\ UNCHANGED notExecVars

\* the caller drops the exec_command future while it is suspended
ExecDrop ==
    /\ ex_pc = "waiting"
    /\ ex_pc' = "dropped"
    /\ ex_child' = drop_child(ex_child)
    /\ UNCHANGED <<ex_program, ex_options, ex_stage, ex_pipe, ex_drain, ex_result>>
    /\ UNCHANGED notExecVars

\* the runtime's process driver sees SIGCHLD and drains the orphan queue
ReapOrphans ==
    /\ ex_child.orphan
    /\ ex_child.state = "zombie"
    /\ ex_child' = [ex_child EXCEPT !.state = "reaped", !.orphan = FALSE]
    /\ UNCHANGED <<ex_program, ex_options, ex_pc, ex_stage, ex_pipe, ex_drain, ex_result>>
    /\ UNCHANGED notExecVars

ExecIdle ==
    /\ ex_program = MissingProgram
    /\ ex_options = [timeout |-> None, max_output_size |-> 0]
    /\ ex_pc = "idle"
    /\ ex_stage = "child"
    /\ ex_child = NoChild
    /\ ex_pipe = [s \in Streams |-> ClosedPipe]
    /\ ex_drain = [s \in Streams |-> NoDrain]
    /\ ex_result = NoExecResult

NextExec ==
    \/ ExecSpawnFailed
    \/ ExecSpawn
    \/ ChildWrite
    \/ ChildSigpipe
    \/ ChildExit
    \/ ChildKilled
    \/ DrainStdout
    \/ DrainStderr
    \/ ExecPollReady
    \/ ExecPollPending
    \/ ExecPollTimeout
    \/ ExecDrop
    \/ ReapOrphans

\* read_and_truncate as a function of a whole stream
InitTruncVars ==
    /\ tr_content \in SeqsUpTo(Bytes, MaxContent)
    /\ tr_max_size \in 0..MaxOutputSize
    /\ tr_pc = "call"
    /\ tr_ret = NewDrain

ReadAndTruncate ==
    /\ tr_pc = "call"
    /\ tr_ret' = read_and_truncate(tr_content, tr_max_size)
    /\ tr_pc' = "returned"
    /\ UNCHANGED <<tr_content, tr_max_size>>
    /\ UNCHANGED notTruncVars

TruncIdle ==
    /\ tr_content = <<>>
    /\ tr_max_size = 0
    /\ tr_pc = "idle"
    /\ tr_ret = NewDrain

NextTrunc == ReadAndTruncate

----------------------------------------------------------------------------
(* Two concurrent exec_command calls: src/executor/runner.rs *)

\* the two calls in flight
Execs == {1, 2}

\* the byte only the child of call e writes, and only to stream s
OwnByte(e, s) ==
    CASE e = 1 /\ s = "stdout" -> "o1"
      [] e = 1 /\ s = "stderr" -> "e1"
      [] e = 2 /\ s = "stdout" -> "o2"
      [] OTHER -> "e2"

\* the programs of call e: up to MaxConcWrites one-line writes, then exit 0
ConcPrograms(e) ==
    { [ops |-> o, code |-> 0] :
        o \in SeqsUpTo({ [stream |-> s, data |-> <<OwnByte(e, s), "\n">>] :
                            s \in Streams }, MaxConcWrites) }

\* every call would use the pipes of the first call
pipe_of_shared(e, s) == <<1, s>>

\* the pipe behind stream s of call e: Stdio::piped() makes a new pipe for
\* each stream of each spawned Command
pipe_of(e, s) == <<e, s>>

PipeKeys == Execs \X Streams

\* the state of one call: the locals of its exec_command / wait_for_output
\* futures, its child and its two drain tasks
NewCall(program, max_output_size) ==
    [program |-> program, max_output_size |-> max_output_size, pc |-> "init",
     stage |-> "child", child |-> NoChild,
     drain |-> [s \in Streams |-> NoDrain], result |-> NoExecResult]

InitConcVars ==
    /\ cx_call \in { [e \in Execs |-> NewCall(p[e], m[e])] :
                       p \in [Execs -> UNION {ConcPrograms(e) : e \in Execs}],
                       m \in [Execs -> 0..MaxOutputSize] }
    /\ \A e \in Execs : cx_call[e].program \in ConcPrograms(e)
    /\ cx_pipe = [k \in PipeKeys |-> ClosedPipe]

\* call e runs exec_command up to its first suspension
ConcSpawn(e) ==
    /\ cx_call[e].pc = "init"
    /\ cx_call' = [cx_call EXCEPT ![e].pc = "waiting",
                                  ![e].child = [NoChild EXCEPT !.state = "running"],
                                  ![e].drain = [s \in Streams |-> NewDrain]]
    /\ cx_pipe' = [k \in PipeKeys |->
                     IF \E s \in Streams : k = pipe_of(e, s)
                     THEN OpenPipe ELSE cx_pipe[k]]
    /\ UNCHANGED notConcVars

\* the child of call e writes its next line
ConcChildWrite(e) ==
    /\ cx_call[e].child.state = "running"
    /\ cx_call[e].child.ip <= Len(cx_call[e].program.ops)
    /\ LET op == cx_call[e].program.ops[cx_call[e].child.ip]
           k == pipe_of(e, op.stream)
       IN  /\ cx_pipe[k].rd
           /\ Len(cx_pipe[k].buf) + Len(op.data) <= PipeCapacity
           /\ cx_pipe' = [cx_pipe EXCEPT ![k].buf = @ \o op.data]
    /\ cx_call' = [cx_call EXCEPT ![e].child.ip = @ + 1]
    /\ UNCHANGED notConcVars

\* the child of call e writes to a pipe nobody reads any more: SIGPIPE
ConcChildSigpipe(e) ==
    /\ cx_call[e].child.state = "running"
    /\ cx_call[e].child.ip <= Len(cx_call[e].program.ops)
    /\ ~cx_pipe[pipe_of(e, cx_call[e].program.ops[cx_call[e].child.ip].stream)].rd
    /\ cx_call' = [cx_call EXCEPT ![e].child.state = "zombie",
                                  ![e].child.signal = "SIGPIPE"]
    /\ cx_pipe' = [k \in PipeKeys |->
                     IF \E s \in Streams : k = pipe_of(e, s)
                     THEN [cx_pipe[k] EXCEPT !.wr = FALSE] ELSE cx_pipe[k]]
    /\ UNCHANGED notConcVars

\* the child of call e exits
ConcChildExit(e) ==
    /\ cx_call[e].child.state = "running"
    /\ cx_call[e].child.ip > Len(cx_call[e].program.ops)
    /\ cx_call' = [cx_call EXCEPT ![e].child.state = "zombie",
                                  ![e].child.status = Some(cx_call[e].program.code)]
    /\ cx_pipe' = [k \in PipeKeys |->
                     IF \E s \in Streams : k = pipe_of(e, s)
                     THEN [cx_pipe[k] EXCEPT !.wr = FALSE] ELSE cx_pipe[k]]
    /\ UNCHANGED notConcVars

\* the drain task of stream s of call e runs
ConcDrain(e, s) ==
    /\ cx_call[e].drain[s].state = "reading"
    /\ LET k == pipe_of(e, s)
           after == read_lines(cx_call[e].drain[s],
                               cx_call[e].drain[s].pending \o cx_pipe[k].buf,
                               ~cx_pipe[k].wr, cx_call[e].max_output_size)
       IN  /\ cx_pipe[k].buf # <<>> \/ ~cx_pipe[k].wr
           /\ cx_call' = [cx_call EXCEPT ![e].drain[s] = after]
           /\ cx_pipe' = [cx_pipe EXCEPT ![k].buf = <<>>,
                                         ![k].rd = (after.state = "reading")]
    /\ UNCHANGED notConcVars

\* call e is polled: wait_for_output moves on, and returns when it is done
ConcPoll(e) ==
    /\ cx_call[e].pc = "waiting"
    /\ LET w == wait_for_output(cx_call[e].stage, cx_call[e].child, cx_call[e].drain)
       IN  /\ w.verdict # "pending" \/ w.stage # cx_call[e].stage
           /\ cx_call' = [cx_call EXCEPT
                  ![e].stage = w.stage,
                  ![e].child = w.child,
                  ![e].pc = IF w.verdict = "pending" THEN "waiting" ELSE "returned",
                  ![e].result = IF w.verdict = "ok"
                                THEN ExecResult(w.child.status, cx_call[e].drain)
                                ELSE IF w.verdict = "io" THEN ExecError("Io", <<>>, None)
                                ELSE NoExecResult]
    /\ UNCHANGED cx_pipe
    /\ UNCHANGED notConcVars

ConcIdle ==
    /\ cx_call = [e \in Execs |-> NewCall([ops |-> <<>>, code |-> 0], 0)]
    /\ cx_pipe = [k \in PipeKeys |-> ClosedPipe]

NextConc ==
    \/ \E e \in Execs : ConcSpawn(e)
    \/ \E e \in Execs : ConcChildWrite(e)
    \/ \E e \in Execs : ConcChildSigpipe(e)
    \/ \E e \in Execs : ConcChildExit(e)
    \/ \E e \in Execs, s \in Streams : ConcDrain(e, s)
    \/ \E e \in Execs : ConcPoll(e)

----------------------------------------------------------------------------
(* Discovery: the parsers behind list_tasks, src/runner/{makefile,justfile,script}.rs *)

\* the names that occur in the explored texts, in the order str::cmp gives them
NameOrder ==
    <<"CC", "TARGET", "build", "env", "files", "help", "main", "rest",
      "target", "test", "usage">>

rank(n) == CHOOSE i \in DOMAIN NameOrder : NameOrder[i] = n

\* names matched by [a-zA-Z_][a-zA-Z0-9_-]*
Identifiers == Range(NameOrder)

Front(s) == SubSeq(s, 1, Len(s) - 1)

Last(s) == s[Len(s)]

\* TaskArg { name, required, default, description: None }
TaskArg(name, required, default) ==
    [name |-> name, required |-> required, default |-> default]

\* TaskInfo { name, description, arguments }
TaskInfo(name, description, arguments) ==
    [name |-> name, description |-> description, arguments |-> arguments]

\* tasks.sort_by(|a, b| a.name.cmp(&b.name)): a stable sort on the name
RECURSIVE insert_by_name(_, _)
insert_by_name(sorted, t) ==
    IF sorted = <<>> THEN <<t>>
    ELSE IF rank(Last(sorted).name) <= rank(t.name) THEN Append(sorted, t)
    ELSE Append(insert_by_name(Front(sorted), t), Last(sorted))

RECURSIVE sort_by_name(_)
sort_by_name(tasks) ==
    IF tasks = <<>> THEN <<>>
    ELSE insert_by_name(sort_by_name(Front(tasks)), Last(tasks))

\* a HashSet<String> collected into a Vec and sorted
RECURSIVE sorted_names(_)
sorted_names(S) ==
    IF S = {} THEN <<>>
    ELSE LET m == CHOOSE n \in S : \A o \in S : rank(n) <= rank(o)
         IN  <<m>> \o sorted_names(S \ {m})

\* A text is a sequence of lines.  A line is given by what the parsers' regular
\* expressions see in it: its kind, the identifier it starts with, the argument
\* tokens that follow and its free text.
Line(kind, name, args, text) ==
    [kind |-> kind, name |-> name, args |-> args, text |-> text]

\* the empty line
Blank == Line("blank", "", <<>>, "")

\* a line none of the expressions matches, e.g. "echo done"
Other == Line("other", "", <<>>, "")

(* Makefile text.  Line kinds:
     target     "name: deps"        assign     "name := value"
     doc        "## text"           named_doc  "# name: text"
     recipe     "\t$(VAR)" for every token of args   *)

\* TARGET_RE ^([a-zA-Z_][a-zA-Z0-9_-]*)\s*: and its first capture
TARGET_RE(line) ==
    IF line.kind \in {"target", "assign"} /\ line.name \in Identifiers
    THEN Some(line.name) ELSE None

\* the line holds one of := ::= ?= +=
has_assignment(line) == line.kind = "assign"

starts_with_dot(name) == name = ".PHONY"

is_builtin_make_var(name) == name \in {"MAKE", "SHELL", "CC", "CFLAGS", "RM"}

\* extract_description: the "## text" or "# target: text" line right above
extract_description(lines_before, target_name) ==
    IF lines_before = <<>> THEN None
    ELSE LET prev == Last(lines_before)
         IN  IF prev.kind = "doc" THEN Some(prev.text)
             ELSE IF prev.kind = "named_doc" /\ prev.name = target_name
                  THEN Some(prev.text)
             ELSE None

\* the variables referenced by the recipe lines that follow line i, up to the
\* first line that is neither empty nor starts with a tab
RECURSIVE recipe_vars(_, _)
recipe_vars(lines, j) ==
    IF j > Len(lines) THEN {}
    ELSE IF lines[j].kind \notin {"recipe", "blank"} THEN {}
    ELSE {lines[j].args[k].name : k \in DOMAIN lines[j].args}
            \cup recipe_vars(lines, j + 1)

extract_make_args(lines, target_line) ==
    LET names == sorted_names({v \in recipe_vars(lines, target_line + 1) :
                                  ~is_builtin_make_var(v)})
    IN  [k \in DOMAIN names |-> TaskArg(names[k], FALSE, None)]

\* the loop of parse_makefile from line i on
RECURSIVE parse_makefile_from(_, _, _, _)
parse_makefile_from(lines, i, tasks, seen_targets) ==
    IF i > Len(lines) THEN tasks
    ELSE LET caps == TARGET_RE(lines[i])
             name == caps[1]
         IN  IF caps = None \/ has_assignment(lines[i]) \/ name \in seen_targets
                \/ starts_with_dot(name)
             THEN parse_makefile_from(lines, i + 1, tasks, seen_targets)
             ELSE parse_makefile_from(lines, i + 1,
                      Append(tasks,
                             TaskInfo(name,
                                      extract_description(SubSeq(lines, 1, i - 1), name),
                                      extract_make_args(lines, i))),
                      seen_targets \cup {name})

parse_makefile(lines) == OkTasks(sort_by_name(parse_makefile_from(lines, 1, <<>>, {})))

\* list_targets_via_make on the database `make -pRrq :` prints
database_targets(lines) ==
    {TARGET_RE(lines[i])[1] : i \in {j \in DOMAIN lines :
        /\ lines[j].kind \notin {"doc", "named_doc", "recipe", "blank"}
        /\ TARGET_RE(lines[j]) # None
        /\ ~starts_with_dot(TARGET_RE(lines[j])[1])}}

list_targets_via_make(lines) ==
    LET names == sorted_names(database_targets(lines))
    IN  OkTasks([k \in DOMAIN names |-> TaskInfo(names[k], None, <<>>)])

(* Just text.  An argument token is written prefix name [= quote value quote];
   the value is a word without quotes or blanks. *)

\* a parameter without a default: "env", "+files", "*rest"
Param(prefix, name) ==
    [prefix |-> prefix, name |-> name, eq |-> FALSE, quote |-> "", value |-> ""]

\* a parameter with a default: "target='release'" (quote "'") or "target=stage"
ParamDefault(name, quote, value) ==
    [prefix |-> "", name |-> name, eq |-> TRUE, quote |-> quote, value |-> value]

\* the text of one token
tok_text(t) ==
    t.prefix \o t.name
        \o (IF t.eq THEN "=" \o t.quote \o t.value \o t.quote ELSE "")

\* the text of tokens i..j, each preceded by one blank
RECURSIVE toks_text(_, _, _)
toks_text(toks, i, j) ==
    IF i > j THEN "" ELSE " " \o tok_text(toks[i]) \o toks_text(toks, i + 1, j)

\* the first token after i that opens a quote, or 0
first_quoted(toks, i) ==
    IF \E j \in (i + 1)..Len(toks) : toks[j].quote # ""
    THEN CHOOSE j \in (i + 1)..Len(toks) :
            /\ toks[j].quote # ""
            /\ \A k \in (i + 1)..(j - 1) : toks[k].quote = ""
    ELSE 0

\* parse_args_from_list: the successive matches of
\*   ([+*]?)([a-zA-Z_][a-zA-Z0-9_-]*)(?:=['"]?([^'"]*)?['"]?)?
\* from token i on.  The third group stops only at a quote or at the end of
\* the text, so an unquoted default runs on over the tokens that follow it.
RECURSIVE parse_args_from(_, _)
parse_args_from(toks, i) ==
    IF i > Len(toks) THEN <<>>
    ELSE LET t == toks[i]
             j == first_quoted(toks, i)
         IN  IF ~t.eq
             THEN <<TaskArg(t.name, t.prefix = "", None)>> \o parse_args_from(toks, i + 1)
             ELSE IF t.quote # ""
             THEN <<TaskArg(t.name, FALSE, Some(t.value))>> \o parse_args_from(toks, i + 1)
             ELSE IF j = 0
             THEN <<TaskArg(t.name, FALSE,
                            Some(t.value \o toks_text(toks, i + 1, Len(toks))))>>
             ELSE <<TaskArg(t.name, FALSE,
                            Some(t.value \o toks_text(toks, i + 1, j - 1) \o " "
                                    \o toks[j].prefix \o toks[j].name \o "=")),
                    TaskArg(toks[j].value, TRUE, None)>>
                     \o parse_args_from(toks, j + 1)

parse_args_from_list(args_str) == parse_args_from(args_str, 1)

(* `just --list` text.  Line kinds:
     header   "Available recipes:"
     recipe   "    name args # text"   (text "" when there is no "#" part) *)

\* the recipe line expression of parse_list_output and its first capture
list_recipe_re(line) ==
    IF line.kind = "recipe" /\ line.name \in Identifiers
    THEN Some(line.name) ELSE None

RECURSIVE parse_list_from(_, _)
parse_list_from(lines, i) ==
    IF i > Len(lines) THEN <<>>
    ELSE IF lines[i].kind \in {"header", "blank"} \/ list_recipe_re(lines[i]) = None
    THEN parse_list_from(lines, i + 1)
    ELSE <<TaskInfo(lines[i].name,
                    IF lines[i].text = "" THEN None ELSE Some(lines[i].text),
                    parse_args_from_list(lines[i].args))>>
            \o parse_list_from(lines, i + 1)

parse_list_output(lines) == OkTasks(parse_list_from(lines, 1))

(* justfile text.  Line kinds:
     recipe   "name args: deps"      assign   "name := 'value'"
     comment  "# text"                                                    *)

\* the recipe expression of parse_justfile, ^@?(name)\s*([^:]*?):\s*.*$ ; it
\* also matches an assignment, whose ":" follows the name
file_recipe_re(line) ==
    IF line.kind \in {"recipe", "assign"} /\ line.name \in Identifiers
    THEN Some(line.name) ELSE None

\* doc_re on the previous line
doc_comment(lines, i) ==
    IF i > 1 /\ lines[i - 1].kind = "comment" THEN Some(lines[i - 1].text) ELSE None

RECURSIVE parse_justfile_from(_, _, _, _)
parse_justfile_from(lines, i, tasks, seen_recipes) ==
    IF i > Len(lines) THEN tasks
    ELSE IF file_recipe_re(lines[i]) = None \/ lines[i].name \in seen_recipes
    THEN parse_justfile_from(lines, i + 1, tasks, seen_recipes)
    ELSE parse_justfile_from(lines, i + 1,
             Append(tasks,
                    TaskInfo(lines[i].name, doc_comment(lines, i),
                             parse_args_from_list(lines[i].args))),
             seen_recipes \cup {lines[i].name})

parse_justfile(lines) == OkTasks(sort_by_name(parse_justfile_from(lines, 1, <<>>, {})))

(* `just --dump --format json` text: either not a JSON document of the
   expected shape, or an object whose "recipes" member lists name/recipe
   pairs in the order of the text. *)

\* a JSON string value and any other JSON value, given by its JSON text
JsonString(s) == [type |-> "string", text |-> s]

JsonOther(t) == [type |-> "other", text |-> t]

JustParameter(name, default, kind) == [name |-> name, default |-> default, kind |-> kind]

JustRecipe(name, doc, parameters) == [name |-> name, doc |-> doc, parameters |-> parameters]

JustDump(valid, recipes) == [valid |-> valid, recipes |-> recipes]

\* one JustParameter as a TaskArg
dump_arg(p) ==
    LET default == IF p.default = None THEN None ELSE Some(p.default[1].text)
        required == default = None /\ p.kind # "Plus" /\ p.kind # "Star"
    IN  TaskArg(p.name, required, default)

\* the HashMap serde builds from the pairs: the last pair of a name wins
recipes_map(recipes) ==
    {recipes[i] : i \in {k \in DOMAIN recipes :
        \A l \in DOMAIN recipes : recipes[l].name = recipes[k].name => l <= k}}

\* the map's entries in the order of their names
RECURSIVE sorted_recipes(_)
sorted_recipes(S) ==
    IF S = {} THEN <<>>
    ELSE LET m == CHOOSE r \in S : \A o \in S : rank(r.name) <= rank(o.name)
         IN  <<m>> \o sorted_recipes(S \ {m})

parse_dump_json(dump) ==
    IF ~dump.valid THEN ErrTasks("Config")
    ELSE LET rs == sorted_recipes(recipes_map(dump.recipes))
         IN  OkTasks([k \in DOMAIN rs |->
                 TaskInfo(rs[k].name, rs[k].doc,
                          [a \in DOMAIN rs[k].parameters |-> dump_arg(rs[k].parameters[a])])])

(* Script --help text.  Line kinds:
     section  a line holding "Commands:" or "Command:" in any case
     command  "  name   text"  (2 to 4 blanks, a name, blanks, the rest)
     option   "  -h, --help   text"                                       *)

\* CMD_LINE_RE and ALT_CMD_RE, and their first capture
CMD_LINE_RE(line) ==
    IF line.kind = "command" /\ line.name \in Identifiers
    THEN Some(line.name) ELSE None

is_common_word(word) == word \in {"usage", "options", "examples", "info"}

\* the description a help line yields: None when the text is empty
help_description(line) == IF line.text = "" THEN None ELSE Some(line.text)

\* the first loop of parse_help_output: the lines of the Commands section
RECURSIVE commands_section(_, _, _, _)
commands_section(lines, i, tasks, in_commands_section) ==
    IF i > Len(lines) THEN tasks
    ELSE IF lines[i].kind = "section"
    THEN commands_section(lines, i + 1, tasks, TRUE)
    ELSE IF ~in_commands_section
    THEN commands_section(lines, i + 1, tasks, FALSE)
    ELSE IF lines[i].kind = "blank" /\ tasks # <<>>
    THEN commands_section(lines, i + 1, tasks, FALSE)
    ELSE IF CMD_LINE_RE(lines[i]) # None
    THEN commands_section(lines, i + 1,
             Append(tasks, TaskInfo(lines[i].name, help_description(lines[i]), <<>>)),
             TRUE)
    ELSE commands_section(lines, i + 1, tasks, TRUE)

\* the second loop of parse_help_output: every two-column line
RECURSIVE two_column(_, _, _)
two_column(lines, i, tasks) ==
    IF i > Len(lines) THEN tasks
    ELSE IF lines[i].kind = "option" \/ CMD_LINE_RE(lines[i]) = None
            \/ is_common_word(lines[i].name)
            \/ \E k \in DOMAIN tasks : tasks[k].name = lines[i].name
    THEN two_column(lines, i + 1, tasks)
    ELSE two_column(lines, i + 1,
             Append(tasks, TaskInfo(lines[i].name, help_description(lines[i]), <<>>)))

parse_help_output(lines) ==
    LET tasks == commands_section(lines, 1, <<>>, FALSE)
    IN  OkTasks(sort_by_name(IF tasks = <<>> THEN two_column(lines, 1, <<>>) ELSE tasks))

\* format!("{}\n{}", stdout, stderr) of list_via_help, for streams whose
\* lines all end in a newline
combined(stdout, stderr) == stdout \o <<Blank>> \o stderr

(* Script text.  Line kinds:
     case     "  name)"        func     "name() {"       comment  "# text" *)

CASE_RE(line) ==
    IF line.kind = "case" /\ line.name \in Identifiers THEN Some(line.name) ELSE None

FUNC_RE(line) ==
    IF line.kind = "func" /\ line.name \in Identifiers THEN Some(line.name) ELSE None

is_internal_function(name) == name \in {"main", "usage", "help"}

\* a lookup that goes back over blank lines to the nearest comment
RECURSIVE script_comment_over_blanks(_, _)
script_comment_over_blanks(lines, i) ==
    IF i <= 1 THEN None
    ELSE IF lines[i - 1].kind = "comment" THEN Some(lines[i - 1].text)
    ELSE IF lines[i - 1].kind = "blank" THEN script_comment_over_blanks(lines, i - 1)
    ELSE None

\* SCRIPT_COMMENT_RE on the previous line
script_comment(lines, i) ==
    IF i > 1 /\ lines[i - 1].kind = "comment" THEN Some(lines[i - 1].text) ELSE None

\* push unless a task of that name is there already
push_new(tasks, t) ==
    IF \E k \in DOMAIN tasks : tasks[k].name = t.name THEN tasks ELSE Append(tasks, t)

RECURSIVE list_via_parse_from(_, _, _)
list_via_parse_from(lines, i, tasks) ==
    IF i > Len(lines) THEN tasks
    ELSE IF CASE_RE(lines[i]) # None
    THEN IF lines[i].name = "help" /\ tasks # <<>>
         THEN list_via_parse_from(lines, i + 1, tasks)
         ELSE list_via_parse_from(lines, i + 1,
                  push_new(tasks, TaskInfo(lines[i].name, script_comment(lines, i), <<>>)))
    ELSE IF FUNC_RE(lines[i]) # None /\ ~is_internal_function(lines[i].name)
    THEN list_via_parse_from(lines, i + 1,
             push_new(tasks, TaskInfo(lines[i].name, script_comment(lines, i), <<>>)))
    ELSE list_via_parse_from(lines, i + 1, tasks)

list_via_parse(lines) == OkTasks(sort_by_name(list_via_parse_from(lines, 1, <<>>)))

(* The explored texts *)

MaxLines == 3

MaxErrLines == 1

MaxRecipes == 2

MakeLines ==
    {Line("target", n, <<>>, "") : n \in {"build", "test", ".PHONY"}}
        \cup {Line("assign", "build", <<>>, ""),
              Line("doc", "", <<>>, "Build it"),
              Line("named_doc", "build", <<>>, "Build it"),
              Line("recipe", "", <<Param("", "TARGET")>>, ""),
              Line("recipe", "", <<Param("", "CC")>>, ""),
              Blank}

\* the argument texts of the explored recipe lines
ArgLists ==
    {<<>>,
     <<Param("", "env")>>,
     <<ParamDefault("target", "'", "release")>>,
     <<Param("+", "files")>>,
     <<Param("*", "rest")>>,
     <<ParamDefault("target", "", "stage")>>,
     <<Param("", "env"), ParamDefault("target", "'", "release")>>,
     <<ParamDefault("target", "", "stage"), Param("*", "rest")>>,
     <<ParamDefault("target", "", "stage"), ParamDefault("env", "'", "release")>>}

JustListLines ==
    {Line("recipe", "build", a, "") : a \in ArgLists}
        \cup {Line("recipe", "build", <<>>, "Build it"),
              Line("recipe", "test", <<>>, ""),
              Line("header", "", <<>>, ""), Blank, Other}

JustFileLines ==
    {Line("recipe", "build", a, "") : a \in ArgLists}
        \cup {Line("recipe", "test", <<>>, ""),
              Line("assign", "env", <<>>, ""),
              Line("comment", "", <<>>, "Build it"), Blank, Other}

ParameterLists ==
    {<<>>,
     <<JustParameter("env", None, "Singular")>>,
     <<JustParameter("env", None, "")>>,
     <<JustParameter("target", Some(JsonString("prod")), "Singular")>>,
     <<JustParameter("target", Some(JsonOther("[\"variable\",\"stage\"]")), "Singular")>>,
     <<JustParameter("files", None, "Plus")>>,
     <<JustParameter("rest", None, "Star")>>,
     <<JustParameter("rest", Some(JsonString("prod")), "Star")>>}

JustDumps ==
    {JustDump(FALSE, <<>>)}
        \cup {JustDump(TRUE, rs) :
                rs \in SeqsUpTo({JustRecipe(n, d, ps) :
                                    n \in {"build", "test"},
                                    d \in {None, Some("Build it")},
                                    ps \in ParameterLists}, MaxRecipes)}

HelpLines ==
    {Line("section", "", <<>>, ""),
     Line("command", "build", <<>>, "Build it"),
     Line("command", "test", <<>>, ""),
     Line("command", "usage", <<>>, "Build it"),
     Line("option", "", <<>>, ""), Blank, Other}

ScriptLines ==
    {Line("case", n, <<>>, "") : n \in {"build", "test", "help"}}
        \cup {Line("func", "build", <<>>, ""), Line("func", "main", <<>>, ""),
              Line("comment", "", <<>>, "Build it"), Blank, Other}

Strategies ==
    {"parse_makefile", "list_targets_via_make", "parse_dump_json",
     "parse_list_output", "parse_justfile", "parse_help_output", "list_via_parse"}

\* the text a strategy reads: a file or a stdout, a stderr, a JSON document
Input(text, err, dump) == [text |-> text, err |-> err, dump |-> dump]

NoInput == Input(<<>>, <<>>, JustDump(FALSE, <<>>))

Inputs(strategy) ==
    CASE strategy \in {"parse_makefile", "list_targets_via_make"} ->
            {Input(t, <<>>, NoInput.dump) : t \in SeqsUpTo(MakeLines, MaxLines)}
      [] strategy = "parse_dump_json" ->
            {Input(<<>>, <<>>, d) : d \in JustDumps}
      [] strategy = "parse_list_output" ->
            {Input(t, <<>>, NoInput.dump) : t \in SeqsUpTo(JustListLines, MaxLines)}
      [] strategy = "parse_justfile" ->
            {Input(t, <<>>, NoInput.dump) : t \in SeqsUpTo(JustFileLines, MaxLines)}
      [] strategy = "parse_help_output" ->
            {Input(t, e, NoInput.dump) :
                t \in SeqsUpTo(HelpLines, MaxLines), e \in SeqsUpTo(HelpLines, MaxErrLines)}
      [] strategy = "list_via_parse" ->
            {Input(t, <<>>, NoInput.dump) : t \in SeqsUpTo(ScriptLines, MaxLines)}

InitDiscVars ==
    /\ ds_strategy \in Strategies
    /\ ds_input \in Inputs(ds_strategy)
    /\ ds_result = NoTool
    /\ ds_pc = "call"

\* parse_makefile reads the Makefile
ParseMakefile ==
    /\ ds_pc = "call"
    /\ ds_strategy = "parse_makefile"
    /\ ds_result' = parse_makefile(ds_input.text)
    /\ ds_pc' = "returned"
    /\ UNCHANGED <<ds_strategy, ds_input>>
    /\ UNCHANGED notDiscVars

\* list_targets_via_make reads the database make printed
ListTargetsViaMake ==
    /\ ds_pc = "call"
    /\ ds_strategy = "list_targets_via_make"
    /\ ds_result' = list_targets_via_make(ds_input.text)
    /\ ds_pc' = "returned"
    /\ UNCHANGED <<ds_strategy, ds_input>>
    /\ UNCHANGED notDiscVars

\* parse_dump_json reads the JSON dump just printed
ParseDumpJson ==
    /\ ds_pc = "call"
    /\ ds_strategy = "parse_dump_json"
    /\ ds_result' = parse_dump_json(ds_input.dump)
    /\ ds_pc' = "returned"
    /\ UNCHANGED <<ds_strategy, ds_input>>
    /\ UNCHANGED notDiscVars

\* parse_list_output reads the listing just printed
ParseListOutput ==
    /\ ds_pc = "call"
    /\ ds_strategy = "parse_list_output"
    /\ ds_result' = parse_list_output(ds_input.text)
    /\ ds_pc' = "returned"
    /\ UNCHANGED <<ds_strategy, ds_input>>
    /\ UNCHANGED notDiscVars

\* parse_justfile reads the justfile
ParseJustfile ==
    /\ ds_pc = "call"
    /\ ds_strategy = "parse_justfile"
    /\ ds_result' = parse_justfile(ds_input.text)
    /\ ds_pc' = "returned"
    /\ UNCHANGED <<ds_strategy, ds_input>>
    /\ UNCHANGED notDiscVars

\* list_via_help joins what the script printed and parse_help_output reads it
ParseHelpOutput ==
    /\ ds_pc = "call"
    /\ ds_strategy = "parse_help_output"
    /\ ds_result' = parse_help_output(combined(ds_input.text, ds_input.err))
    /\ ds_pc' = "returned"
    /\ UNCHANGED <<ds_strategy, ds_input>>
    /\ UNCHANGED notDiscVars

\* list_via_parse reads the script
ListViaParse ==
    /\ ds_pc = "call"
    /\ ds_strategy = "list_via_parse"
    /\ ds_result' = list_via_parse(ds_input.text)
    /\ ds_pc' = "returned"
    /\ UNCHANGED <<ds_strategy, ds_input>>
    /\ UNCHANGED notDiscVars

DiscIdle ==
    /\ ds_strategy = "none"
    /\ ds_input = NoInput
    /\ ds_result = NoTool
    /\ ds_pc = "idle"

NextDisc ==
    \/ ParseMakefile
    \/ ListTargetsViaMake
    \/ ParseDumpJson
    \/ ParseListOutput
    \/ ParseJustfile
    \/ ParseHelpOutput
    \/ ListViaParse

----------------------------------------------------------------------------
(* Commands: build_command and the argv run_task spawns,
   src/runner/makefile.rs, src/runner/justfile.rs and src/runner/script.rs *)

MaxNamed == 2

MaxPositional == 2

\* parts.join(" ")
RECURSIVE join_words(_)
join_words(parts) ==
    IF parts = <<>> THEN ""
    ELSE IF Len(parts) = 1 THEN parts[1]
    ELSE parts[1] \o " " \o join_words(Tail(parts))

\* RunOptions.args is a HashMap: here the sequence of its (key, value)
\* entries in the order the map iterates them, the keys distinct
ArgKeys == {"TARGET", "VERBOSE"}

ArgValues == {"release", ""}

NamedArgs ==
    {a \in SeqsUpTo(ArgKeys \X ArgValues, MaxNamed) :
        \A i, j \in DOMAIN a : a[i][1] = a[j][1] => i = j}

PositionalWords == {"arg1", "--"}

RunOptions ==
    [args : NamedArgs, positional_args : SeqsUpTo(PositionalWords, MaxPositional)]

\* a script name as configured: "./run.sh" or "run.sh"
ScriptName(prefixed, file) == [dot_slash |-> prefixed, file |-> file]

NoScriptName == ScriptName(FALSE, "")

script_name_text(n) == IF n.dot_slash THEN "./" \o n.file ELSE n.file

\* MakefileRunner { make_command }
MakefileRunner(make_command) ==
    [kind |-> "make", command |-> make_command, script_name |-> NoScriptName]

\* ScriptRunner { script_name, shell }
ScriptRunner(script_name, shell) ==
    [kind |-> "script", command |-> shell, script_name |-> script_name]

\* JustfileRunner { just_command }
JustfileRunner(just_command) ==
    [kind |-> "just", command |-> just_command, script_name |-> NoScriptName]

CommandRunners ==
    {MakefileRunner(c) : c \in {"make", "gmake"}}
        \cup {JustfileRunner(c) : c \in {"just", "/opt/just"}}
        \cup {ScriptRunner(ScriptName(d, "run.sh"), s) :
                d \in BOOLEAN, s \in {"bash", "sh"}}

\* the directory run_task is called on
ProjectDir == "/proj"

\* the named arguments of Make: KEY=VALUE
make_named(args) == [i \in DOMAIN args |-> args[i][1] \o "=" \o args[i][2]]

\* a build_command that leaves the separator out
make_build_command_no_separator(runner, task, options) ==
    join_words(<<runner.command, task>> \o make_named(options.args)
                  \o options.positional_args)

\* MakefileRunner::build_command
make_build_command(runner, task, options) ==
    join_words(<<runner.command, task>> \o make_named(options.args)
                  \o (IF options.positional_args # <<>>
                      THEN <<"--">> \o options.positional_args ELSE <<>>))

\* the program and arguments execute_make hands to Command
execute_make_argv(runner, task, options) ==
    <<runner.command, task>> \o make_named(options.args)
        \o (IF options.positional_args # <<>>
            THEN <<"--">> \o options.positional_args ELSE <<>>)

\* a flag rendering that always writes the "="
script_flag_always_eq(key, value) == "--" \o key \o "=" \o value

\* one named argument of Script: --KEY=VALUE, or --KEY when the value is empty
script_flag(key, value) ==
    IF value = "" THEN "--" \o key ELSE "--" \o key \o "=" \o value

script_named(args) == [i \in DOMAIN args |-> script_flag(args[i][1], args[i][2])]

\* find_script: the directory joined with the name stripped of "./"
script_path(d, script_name) == d \o "/" \o script_name.file

\* ScriptRunner::build_command
script_build_command(runner, task, options) ==
    join_words(<<script_name_text(runner.script_name), task>>
                  \o options.positional_args \o script_named(options.args))

\* the program and arguments execute_script hands to Command
execute_script_argv(runner, d, task, options) ==
    <<runner.command, script_path(d, runner.script_name), task>>
        \o options.positional_args \o script_named(options.args)

\* the named arguments of Just: KEY=VALUE
just_named(args) == [i \in DOMAIN args |-> args[i][1] \o "=" \o args[i][2]]

\* JustfileRunner::build_command
just_build_command(runner, task, options) ==
    join_words(<<runner.command, task>> \o just_named(options.args)
                  \o options.positional_args)

\* the program and arguments execute_just hands to Command
execute_just_argv(runner, task, options) ==
    <<runner.command, task>> \o just_named(options.args) \o options.positional_args

InitCmdVars ==
    /\ cm_runner \in CommandRunners
    /\ cm_task \in TaskNames
    /\ cm_options \in RunOptions
    /\ cm_command = ""
    /\ cm_argv = <<>>
    /\ cm_pc = "call"

\* MakefileRunner::run_task on a directory with a Makefile: execute_make
\* spawns the program and records the command string
MakeRunTask ==
    /\ cm_pc = "call"
    /\ cm_runner.kind = "make"
    /\ cm_argv' = execute_make_argv(cm_runner, cm_task, cm_options)
    /\ cm_command' = make_build_command(cm_runner, cm_task, cm_options)
    /\ cm_pc' = "spawned"
    /\ UNCHANGED <<cm_runner, cm_task, cm_options>>
    /\ UNCHANGED notCmdVars

\* JustfileRunner::run_task on a directory with a justfile
JustRunTask ==
    /\ cm_pc = "call"
    /\ cm_runner.kind = "just"
    /\ cm_argv' = execute_just_argv(cm_runner, cm_task, cm_options)
    /\ cm_command' = just_build_command(cm_runner, cm_task, cm_options)
    /\ cm_pc' = "spawned"
    /\ UNCHANGED <<cm_runner, cm_task, cm_options>>
    /\ UNCHANGED notCmdVars

\* ScriptRunner::run_task on a directory with an executable script
ScriptRunTask ==
    /\ cm_pc = "call"
    /\ cm_runner.kind = "script"
    /\ cm_argv' = execute_script_argv(cm_runner, ProjectDir, cm_task, cm_options)
    /\ cm_command' = script_build_command(cm_runner, cm_task, cm_options)
    /\ cm_pc' = "spawned"
    /\ UNCHANGED <<cm_runner, cm_task, cm_options>>
    /\ UNCHANGED notCmdVars

CmdIdle ==
    /\ cm_runner = MakefileRunner("make")
    /\ cm_task = "build"
    /\ cm_options = [args |-> <<>>, positional_args |-> <<>>]
    /\ cm_command = ""
    /\ cm_argv = <<>>
    /\ cm_pc = "idle"

NextCmd ==
    \/ MakeRunTask
    \/ JustRunTask
    \/ ScriptRunTask

----------------------------------------------------------------------------
(* Results: the values exec_command and to_run_result build from a finished
   process, src/executor/runner.rs and src/runner/traits.rs *)

\* const MAX_OUTPUT_SIZE: usize = 100_000
MAX_OUTPUT_SIZE == 100000

\* the two drain tasks of a process that ended and wrote output: each ran
\* read_and_truncate over its stream up to EOF
FinishedDrains(output) ==
    [s \in Streams |->
        read_and_truncate(IF s = "stdout" THEN output.stdout ELSE output.stderr,
                          MAX_OUTPUT_SIZE)]

\* a conversion that reports every result as a success
to_run_result_always_success(r) == RunResult_success(r.stdout)

\* ExecResult::to_run_result
to_run_result(r) ==
    IF r.success THEN RunResult_success(r.stdout)
    ELSE RunResult_failed(r.exit_code, r.stdout, r.stderr)

InitResVars ==
    /\ rs_input \in Outputs
    /\ rs_exec = NoExecResult
    /\ rs_run = NoResult
    /\ rs_pc = "call"

\* exec_command returns Ok(ExecResult) for a process that ended with the
\* status and the output of rs_input
ExecCommandReturns ==
    /\ rs_pc = "call"
    /\ rs_exec' = ExecResult(rs_input.code, FinishedDrains(rs_input))
    /\ rs_pc' = "exec_returned"
    /\ UNCHANGED <<rs_input, rs_run>>
    /\ UNCHANGED notResVars

\* the caller converts the ExecResult
ToRunResult ==
    /\ rs_pc = "exec_returned"
    /\ rs_run' = to_run_result(rs_exec)
    /\ rs_pc' = "done"
    /\ UNCHANGED <<rs_input, rs_exec>>
    /\ UNCHANGED notResVars

ResIdle ==
    /\ rs_input = NoOutput
    /\ rs_exec = NoExecResult
    /\ rs_run = NoResult
    /\ rs_pc = "idle"

\* the results of exec_command and to_run_result, and those of the runners'
\* run_task
NextRes ==
    \/ ExecCommandReturns
    \/ ToRunResult
    \/ RunTaskNoRunner
    \/ RunTaskSpawnFailed
    \/ RunTaskSpawn
    \/ Tick
    \/ ModifyDir
    \/ ProcessExit
    \/ ListTasks
    \/ ToolReadsDir
    \/ ToolExit

----------------------------------------------------------------------------
(* TaskExecutor: the defaults an executor merges into the options of a call,
   src/executor/runner.rs *)

\* a HashMap<String, String> is the set of its (key, value) entries
EnvKeys == {"DEFAULT", "SHARED"}

EnvValues == {"1", "2"}

EnvMaps ==
    {m \in SUBSET (EnvKeys \X EnvValues) :
        \A p \in m, q \in m : p[1] = q[1] => p = q}

keys(m) == {p[1] : p \in m}

get(m, k) == IF k \in keys(m) THEN Some((CHOOSE p \in m : p[1] = k)[2]) ELSE None

\* HashMap::insert: the entry of the key is replaced
insert(m, k, v) == {p \in m : p[1] # k} \cup {<<k, v>>}

\* ExecOptions { working_dir, env, timeout, capture_output, max_output_size }
ExecOptions(working_dir, env, timeout, capture_output, max_output_size) ==
    [working_dir |-> working_dir, env |-> env, timeout |-> timeout,
     capture_output |-> capture_output, max_output_size |-> max_output_size]

\* impl Default for ExecOptions
ExecOptions_default == ExecOptions(None, {}, None, TRUE, MAX_OUTPUT_SIZE)

\* TaskExecutor { default_timeout, working_dir, env }
TaskExecutor(default_timeout, working_dir, env) ==
    [default_timeout |-> default_timeout, working_dir |-> working_dir, env |-> env]

\* TaskExecutor::new()
TaskExecutor_new == TaskExecutor(None, None, {})

WorkingDirs == {None, Some("/tmp"), Some("/proj")}

\* timeouts in seconds
DurationOptions == {None, Some(30), Some(60)}

OutputSizes == {MAX_OUTPUT_SIZE, 1000}

\* the executors new().with_timeout(..).with_working_dir(..).with_env(..) builds
TaskExecutors ==
    {TaskExecutor(t, w, e) : t \in DurationOptions, w \in WorkingDirs, e \in EnvMaps}

\* the options a caller passes
OverrideOptions ==
    {ExecOptions(w, e, t, c, m) :
        w \in WorkingDirs, e \in EnvMaps, t \in DurationOptions, c \in BOOLEAN,
        m \in OutputSizes}

\* for (k, v) in &overrides.env { options.env.insert(k, v) }
RECURSIVE insert_all(_, _)
insert_all(env, entries) ==
    IF entries = {} THEN env
    ELSE LET p == CHOOSE q \in entries : TRUE
         IN  insert_all(insert(env, p[1], p[2]), entries \ {p})

\* a merge in which a default variable keeps its value
build_options_default_env_wins(self, overrides) ==
    [ExecOptions_default EXCEPT
        !.working_dir = IF overrides.working_dir # None
                        THEN overrides.working_dir ELSE self.working_dir,
        !.timeout = IF overrides.timeout # None
                    THEN overrides.timeout ELSE self.default_timeout,
        !.env = insert_all(overrides.env, self.env),
        !.max_output_size = overrides.max_output_size]

\* TaskExecutor::build_options
build_options(self, overrides) ==
    LET options == [ExecOptions_default EXCEPT
                        !.working_dir = self.working_dir,
                        !.env = self.env,
                        !.timeout = self.default_timeout]
        with_dir == IF overrides.working_dir # None
                    THEN [options EXCEPT !.working_dir = overrides.working_dir]
                    ELSE options
        with_timeout == IF overrides.timeout # None
                        THEN [with_dir EXCEPT !.timeout = overrides.timeout]
                        ELSE with_dir
        with_env == [with_timeout EXCEPT !.env = insert_all(with_timeout.env, overrides.env)]
    IN  IF overrides.max_output_size # MAX_OUTPUT_SIZE
        THEN [with_env EXCEPT !.max_output_size = overrides.max_output_size]
        ELSE with_env

InitOptVars ==
    /\ bo_executor \in TaskExecutors
    /\ bo_overrides \in OverrideOptions
    /\ bo_merged = ExecOptions_default
    /\ bo_pc = "call"

\* TaskExecutor::execute up to its call of exec_command: bo_merged is the
\* options value exec_command is given
Execute ==
    /\ bo_pc = "call"
    /\ bo_merged' = build_options(bo_executor, bo_overrides)
    /\ bo_pc' = "exec_command"
    /\ UNCHANGED <<bo_executor, bo_overrides>>
    /\ UNCHANGED notOptVars

OptIdle ==
    /\ bo_executor = TaskExecutor_new
    /\ bo_overrides = ExecOptions_default
    /\ bo_merged = ExecOptions_default
    /\ bo_pc = "idle"

NextOpt == Execute

----------------------------------------------------------------------------
(* Process trees: exec_command over a command whose child starts a process
   of its own (a recipe, a background job) that inherits the two pipes,
   src/executor/runner.rs *)

MaxTreeWrites == 2

\* the chunks the child writes: a line, and a two-byte character without a
\* newline
TreeWrites == [stream : Streams, data : {<<"a", "\n">>, <<"c3", "a9">>}]

\* what the command does besides writing: whether the child starts a
\* descendant, whether that descendant ends by itself, and whether the
\* child itself stays alive after its writes
TreePrograms ==
    [ops : SeqsUpTo(TreeWrites, MaxTreeWrites), hangs : BOOLEAN,
     forks : BOOLEAN, descendant_exits : BOOLEAN]

\* an anonymous pipe whose write end is held by the child (wr) and, once
\* inherited, by the descendant (held)
TreePipe(buf, rd, wr, held) == [buf |-> buf, rd |-> rd, wr |-> wr, held |-> held]

\* read() on the pipe returns 0 only when no process holds a write end
at_eof(pipe) == ~pipe.wr /\ ~pipe.held

InitTreeVars ==
    /\ pt_program \in TreePrograms
    /\ pt_options \in ExecOptionsSet
    /\ pt_pc = "init"
    /\ pt_stage = "child"
    /\ pt_child = NoChild
    /\ pt_descendant = "none"
    /\ pt_pipe = [s \in Streams |-> TreePipe(<<>>, FALSE, FALSE, FALSE)]
    /\ pt_drain = [s \in Streams |-> NoDrain]
    /\ pt_result = NoExecResult

\* exec_command up to its first suspension: the child is spawned with both
\* streams piped, wait_for_output spawns the two drain tasks and awaits
\* child.wait()
TreeSpawn ==
    /\ pt_pc = "init"
    /\ pt_pc' = "waiting"
    /\ pt_child' = [NoChild EXCEPT !.state = "running"]
    /\ pt_pipe' = [s \in Streams |-> TreePipe(<<>>, TRUE, TRUE, FALSE)]
    /\ pt_drain' = [s \in Streams |-> NewDrain]
    /\ UNCHANGED <<pt_program, pt_options, pt_stage, pt_descendant, pt_result>>
    /\ UNCHANGED notTreeVars

\* the child starts its descendant, which inherits stdout and stderr
TreeFork ==
    /\ pt_child.state = "running"
    /\ pt_program.forks
    /\ pt_descendant = "none"
    /\ pt_descendant' = "running"
    /\ pt_pipe' = [s \in Streams |-> [pt_pipe[s] EXCEPT !.held = TRUE]]
    /\ UNCHANGED <<pt_program, pt_options, pt_pc, pt_stage, pt_child, pt_drain, pt_result>>
    /\ UNCHANGED notTreeVars

\* the child writes its next chunk into a pipe that has room for it
TreeChildWrite ==
    /\ pt_child.state = "running"
    /\ pt_child.ip <= Len(pt_program.ops)
    /\ LET op == pt_program.ops[pt_child.ip]
       IN  /\ pt_pipe[op.stream].rd
           /\ Len(pt_pipe[op.stream].buf) + Len(op.data) <= PipeCapacity
           /\ pt_pipe' = [pt_pipe EXCEPT ![op.stream].buf = @ \o op.data]
    /\ pt_child' = [pt_child EXCEPT !.ip = @ + 1]
    /\ UNCHANGED <<pt_program, pt_options, pt_pc, pt_stage, pt_descendant, pt_drain, pt_result>>
    /\ UNCHANGED notTreeVars

\* the child writes into a pipe whose read end is closed: SIGPIPE
TreeChildSigpipe ==
    /\ pt_child.state = "running"
    /\ pt_child.ip <= Len(pt_program.ops)
    /\ ~pt_pipe[pt_program.ops[pt_child.ip].stream].rd
    /\ pt_child' = [pt_child EXCEPT !.state = "zombie", !.status = None,
                                    !.signal = "SIGPIPE"]
    /\ pt_pipe' = [s \in Streams |-> [pt_pipe[s] EXCEPT !.wr = FALSE]]
    /\ UNCHANGED <<pt_program, pt_options, pt_pc, pt_stage, pt_descendant, pt_drain, pt_result>>
    /\ UNCHANGED notTreeVars

\* the child, having written everything, exits; its descendant goes on
TreeChildExit ==
    /\ pt_child.state = "running"
    /\ pt_child.ip > Len(pt_program.ops)
    /\ ~pt_program.hangs
    /\ pt_child' = [pt_child EXCEPT !.state = "zombie", !.status = Some(0)]
    /\ pt_pipe' = [s \in Streams |-> [pt_pipe[s] EXCEPT !.wr = FALSE]]
    /\ UNCHANGED <<pt_program, pt_options, pt_pc, pt_stage, pt_descendant, pt_drain, pt_result>>
    /\ UNCHANGED notTreeVars

\* the SIGKILL sent by the drop of the child takes effect: it goes to the
\* child's pid only, the descendant keeps its write ends
TreeChildKilled ==
    /\ pt_child.state = "dying"
    /\ pt_child' = [pt_child EXCEPT !.state = "zombie", !.status = None]
    /\ pt_pipe' = [s \in Streams |-> [pt_pipe[s] EXCEPT !.wr = FALSE]]
    /\ UNCHANGED <<pt_program, pt_options, pt_pc, pt_stage, pt_descendant, pt_drain, pt_result>>
    /\ UNCHANGED notTreeVars

\* a descendant that ends by itself does so
TreeDescendantExit ==
    /\ pt_descendant = "running"
    /\ pt_program.descendant_exits
    /\ pt_descendant' = "exited"
    /\ pt_pipe' = [s \in Streams |-> [pt_pipe[s] EXCEPT !.held = FALSE]]
    /\ UNCHANGED <<pt_program, pt_options, pt_pc, pt_stage, pt_child, pt_drain, pt_result>>
    /\ UNCHANGED notTreeVars

\* the drain task of stdout is woken (bytes arrived, or every write end was
\* closed) and runs read_and_truncate until read_line is pending again or
\* the function returns or panics
TreeDrainStdout ==
    /\ pt_drain["stdout"].state = "reading"
    /\ pt_pipe["stdout"].buf # <<>> \/ at_eof(pt_pipe["stdout"])
    /\ LET after == read_lines(pt_drain["stdout"],
                               pt_drain["stdout"].pending \o pt_pipe["stdout"].buf,
                               at_eof(pt_pipe["stdout"]), pt_options.max_output_size)
       IN  /\ pt_drain' = [pt_drain EXCEPT !["stdout"] = after]
           /\ pt_pipe' = [pt_pipe EXCEPT !["stdout"].buf = <<>>,
                                         !["stdout"].rd = (after.state = "reading")]
    /\ UNCHANGED <<pt_program, pt_options, pt_pc, pt_stage, pt_child, pt_descendant, pt_result>>
    /\ UNCHANGED notTreeVars

\* the same for the drain task of stderr
TreeDrainStderr ==
    /\ pt_drain["stderr"].state = "reading"
    /\ pt_pipe["stderr"].buf # <<>> \/ at_eof(pt_pipe["stderr"])
    /\ LET after == read_lines(pt_drain["stderr"],
                               pt_drain["stderr"].pending \o pt_pipe["stderr"].buf,
                               at_eof(pt_pipe["stderr"]), pt_options.max_output_size)
       IN  /\ pt_drain' = [pt_drain EXCEPT !["stderr"] = after]
           /\ pt_pipe' = [pt_pipe EXCEPT !["stderr"].buf = <<>>,
                                         !["stderr"].rd = (after.state = "reading")]
    /\ UNCHANGED <<pt_program, pt_options, pt_pc, pt_stage, pt_child, pt_descendant, pt_result>>
    /\ UNCHANGED notTreeVars

\* a poll of exec_command in which wait_for_output completes
TreePollReady ==
    /\ pt_pc = "waiting"
    /\ LET w == wait_for_output(pt_stage, pt_child, pt_drain)
       IN  /\ w.verdict # "pending"
           /\ pt_stage' = w.stage
           /\ pt_child' = w.child
           /\ pt_result' = IF w.verdict = "ok"
                           THEN ExecResult(w.child.status, pt_drain)
                           ELSE ExecError("Io", <<>>, None)
    /\ pt_pc' = "returned"
    /\ UNCHANGED <<pt_program, pt_options, pt_descendant, pt_pipe, pt_drain>>
    /\ UNCHANGED notTreeVars

\* a poll in which wait_for_output moves to a later await and stays pending
TreePollPending ==
    /\ pt_pc = "waiting"
    /\ LET w == wait_for_output(pt_stage, pt_child, pt_drain)
       IN  /\ w.verdict = "pending"
           /\ w.stage # pt_stage
           /\ pt_stage' = w.stage
           /\ pt_child' = w.child
    /\ UNCHANGED <<pt_program, pt_options, pt_pc, pt_descendant, pt_pipe, pt_drain, pt_result>>
    /\ UNCHANGED notTreeVars

\* a poll of tokio::time::timeout after the deadline with wait_for_output
\* still pending: TaskError::Timeout is returned, which drops the future
\* that owns the child and the two JoinHandles; dropping a JoinHandle
\* detaches its task, it does not cancel it
TreePollTimeout ==
    /\ pt_pc = "waiting"
    /\ pt_options.timeout # None
    /\ LET w == wait_for_output(pt_stage, pt_child, pt_drain)
       IN  /\ w.verdict = "pending"
           /\ pt_stage' = w.stage
           /\ pt_child' = drop_child(w.child)
    /\ pt_result' = ExecError("Timeout", command_str("sh", <<"-c", "script">>),
                           pt_options.timeout)
    /\ pt_pc' = "returned"
    /\ UNCHANGED <<pt_program, pt_options, pt_descendant, pt_pipe, pt_drain>>
    /\ UNCHANGED notTreeVars

\* the runtime's process driver sees SIGCHLD and drains the orphan queue
TreeReapOrphans ==
    /\ pt_child.orphan
    /\ pt_child.state = "zombie"
    /\ pt_child' = [pt_child EXCEPT !.state = "reaped", !.orphan = FALSE]
    /\ UNCHANGED <<pt_program, pt_options, pt_pc, pt_stage, pt_descendant, pt_pipe, pt_drain, pt_result>>
    /\ UNCHANGED notTreeVars

TreeIdle ==
    /\ pt_program = [ops |-> <<>>, hangs |-> FALSE, forks |-> FALSE,
                     descendant_exits |-> FALSE]
    /\ pt_options = [timeout |-> None, max_output_size |-> 0]
    /\ pt_pc = "idle"
    /\ pt_stage = "child"
    /\ pt_child = NoChild
    /\ pt_descendant = "none"
    /\ pt_pipe = [s \in Streams |-> TreePipe(<<>>, FALSE, FALSE, FALSE)]
    /\ pt_drain = [s \in Streams |-> NoDrain]
    /\ pt_result = NoExecResult

NextTree ==
    \/ TreeSpawn
    \/ TreeFork
    \/ TreeChildWrite
    \/ TreeChildSigpipe
    \/ TreeChildExit
    \/ TreeChildKilled
    \/ TreeDescendantExit
    \/ TreeDrainStdout
    \/ TreeDrainStderr
    \/ TreePollReady
    \/ TreePollPending
    \/ TreePollTimeout
    \/ TreeReapOrphans

----------------------------------------------------------------------------
(* MCP server: the tool handlers and reload_config around the shared
   configuration, config: Arc<RwLock<Config>>, src/mcp/server.rs *)

MaxEdits == 2

MaxReloads == 2

MaxObservations == 2

\* the tool calls in flight at the same time
Calls == {"c1", "c2"}

Tools == {"run_task", "list_tasks", "detect_runner", "get_project_config",
          "rebuild_service"}

\* tokio::sync::RwLock: the calls that hold a read guard, whether the write
\* guard is held, and the first-in first-out queue of the tasks waiting
RwLock(readers, writer, queue) == [readers |-> readers, writer |-> writer, queue |-> queue]

\* a write lock is given out although read guards are held
write_available_ignoring_readers(lock) == ~lock.writer

\* the write lock needs every permit: no read guard and no write guard is out
write_available(lock) == lock.readers = {} /\ ~lock.writer

\* released permits go to the waiters in queue order: readers up to the
\* first writer, or the writer at the head once the lock is free
RECURSIVE grant(_)
grant(lock) ==
    IF lock.queue = <<>> THEN lock
    ELSE IF Head(lock.queue) = "reload"
         THEN IF write_available(lock)
              THEN RwLock(lock.readers, TRUE, Tail(lock.queue))
              ELSE lock
    ELSE IF ~lock.writer
         THEN grant(RwLock(lock.readers \cup {Head(lock.queue)}, FALSE, Tail(lock.queue)))
    ELSE lock

\* self.config.read().await by call c: granted at once when nobody waits
\* and no write guard is out, queued otherwise
read(lock, c) ==
    IF ~lock.writer /\ lock.queue = <<>>
    THEN RwLock(lock.readers \cup {c}, FALSE, <<>>)
    ELSE RwLock(lock.readers, lock.writer, Append(lock.queue, c))

\* self.config.write().await
write(lock) ==
    IF write_available(lock) /\ lock.queue = <<>>
    THEN RwLock(lock.readers, TRUE, <<>>)
    ELSE RwLock(lock.readers, lock.writer, Append(lock.queue, "reload"))

\* the read guard of c is dropped
drop_read(lock, c) == grant(RwLock(lock.readers \ {c}, lock.writer, lock.queue))

\* the write guard is dropped
drop_write(lock) == grant(RwLock(lock.readers, FALSE, lock.queue))

\* a tool call: the tool, where its handler is ("idle", "called" from the
\* request of the read guard on, "returned") and the configuration values it
\* read through its guard
ToolCall(tool, pc, seen) == [tool |-> tool, pc |-> pc, seen |-> seen]

NoCall == ToolCall("none", "idle", <<>>)

\* the handler of tool starts for call c: let config = self.config.read().await
start(c, tool) ==
    /\ mc_call[c].pc = "idle"
    /\ mc_call' = [mc_call EXCEPT ![c] = ToolCall(tool, "called", <<>>)]
    /\ mc_lock' = read(mc_lock, c)
    /\ UNCHANGED <<mc_config, mc_disk, mc_reload>>

InitServerVars ==
    /\ mc_config = 0
    /\ mc_disk = 0
    /\ mc_lock = RwLock({}, FALSE, <<>>)
    /\ mc_call = [c \in Calls |-> NoCall]
    /\ mc_reload = [pc |-> "ready", loaded |-> 0, count |-> 0, waited |-> FALSE]

\* MakefilehubServer::run_task begins
RunTaskTool ==
    /\ \E c \in Calls : start(c, "run_task")
    /\ UNCHANGED notServerVars

\* MakefilehubServer::list_tasks begins
ListTasksTool ==
    /\ \E c \in Calls : start(c, "list_tasks")
    /\ UNCHANGED notServerVars

\* MakefilehubServer::detect_runner begins
DetectRunnerTool ==
    /\ \E c \in Calls : start(c, "detect_runner")
    /\ UNCHANGED notServerVars

\* MakefilehubServer::get_project_config begins
GetProjectConfigTool ==
    /\ \E c \in Calls : start(c, "get_project_config")
    /\ UNCHANGED notServerVars

\* MakefilehubServer::rebuild_service begins
RebuildServiceTool ==
    /\ \E c \in Calls : start(c, "rebuild_service")
    /\ UNCHANGED notServerVars

\* a handler that has its guard reads the configuration through it
\* (resolve_project_path, get_runner, detect_runner, the service lookup)
ReadConfig ==
    /\ \E c \in Calls :
        /\ mc_call[c].pc = "called"
        /\ c \in mc_lock.readers
        /\ Len(mc_call[c].seen) < MaxObservations
        /\ mc_call' = [mc_call EXCEPT ![c].seen = Append(@, mc_config)]
    /\ UNCHANGED <<mc_config, mc_disk, mc_lock, mc_reload>>
    /\ UNCHANGED notServerVars

\* a handler returns its response: the guard, a local of the handler, is
\* dropped
ToolReturns ==
    /\ \E c \in Calls :
        /\ mc_call[c].pc = "called"
        /\ c \in mc_lock.readers
        /\ mc_call' = [mc_call EXCEPT ![c].pc = "returned"]
        /\ mc_lock' = drop_read(mc_lock, c)
    /\ UNCHANGED <<mc_config, mc_disk, mc_reload>>
    /\ UNCHANGED notServerVars

\* the configuration files are edited
EditConfigFile ==
    /\ mc_disk < MaxEdits
    /\ mc_disk' = mc_disk + 1
    /\ UNCHANGED <<mc_config, mc_lock, mc_call, mc_reload>>
    /\ UNCHANGED notServerVars

\* reload_config up to its await: the files are loaded and interpolated,
\* then the write lock is requested
ReloadConfig ==
    /\ mc_reload.pc = "ready"
    /\ mc_reload.count < MaxReloads
    /\ mc_lock' = write(mc_lock)
    /\ mc_reload' = [mc_reload EXCEPT !.pc = "locking", !.loaded = mc_disk,
                                      !.waited = ~mc_lock'.writer]
    /\ UNCHANGED <<mc_config, mc_disk, mc_call>>
    /\ UNCHANGED notServerVars

\* reload_config, load_config fails: the error is returned by `?`
ReloadConfigFails ==
    /\ mc_reload.pc = "ready"
    /\ mc_reload.count < MaxReloads
    /\ mc_reload' = [mc_reload EXCEPT !.count = @ + 1]
    /\ UNCHANGED <<mc_config, mc_disk, mc_lock, mc_call>>
    /\ UNCHANGED notServerVars

\* reload_config after its await: *cfg = config, and the write guard is
\* dropped on return
ReloadConfigStores ==
    /\ mc_reload.pc = "locking"
    /\ mc_lock.writer
    /\ mc_config' = mc_reload.loaded
    /\ mc_lock' = drop_write(mc_lock)
    /\ mc_reload' = [mc_reload EXCEPT !.pc = "ready", !.count = @ + 1]
    /\ UNCHANGED <<mc_disk, mc_call>>
    /\ UNCHANGED notServerVars

ServerIdle ==
    /\ mc_config = 0
    /\ mc_disk = 0
    /\ mc_lock = RwLock({}, FALSE, <<>>)
    /\ mc_call = [c \in Calls |-> NoCall]
    /\ mc_reload = [pc |-> "idle", loaded |-> 0, count |-> 0, waited |-> FALSE]

NextServer ==
    \/ RunTaskTool
    \/ ListTasksTool
    \/ DetectRunnerTool
    \/ GetProjectConfigTool
    \/ RebuildServiceTool
    \/ ReadConfig
    \/ ToolReturns
    \/ EditConfigFile
    \/ ReloadConfig
    \/ ReloadConfigFails
    \/ ReloadConfigStores

----------------------------------------------------------------------------
(* rebuild_service: the steps of a rebuild and the response built from
   them, src/mcp/server.rs *)

\* how the steps for one dependency end: resolve_project_path fails,
\* get_runner fails, or the up task runs and exits 0, exits 1 or cannot run
DependencyOutcomes == {"no_path", "no_runner", "exit_0", "exit_1", "error"}

\* how `docker compose up -d --force-recreate <container>` ends
RecreateOutcomes == {"exit_0", "exit_1", "error"}

\* how the build task ends
BuildOutcomes == {"exit_0", "exit_1", "error"}

\* one service of the call with what its steps meet: whether its path
\* resolves, whether a runner is found, how the build ends, and the outcome
\* for each entry of depends_on and force_recreate of its configuration
Service(name, path_ok, runner_ok, build, depends_on, force_recreate) ==
    [name |-> name, path_ok |-> path_ok, runner_ok |-> runner_ok, build |-> build,
     depends_on |-> depends_on, force_recreate |-> force_recreate]

PrimaryServices ==
    {Service("api", p, r, b, d, f) :
        p \in BOOLEAN, r \in BOOLEAN, b \in BuildOutcomes,
        d \in {<<>>} \cup {<<o>> : o \in DependencyOutcomes},
        f \in {<<>>} \cup {<<o>> : o \in RecreateOutcomes}}

\* params.services: none, or one service without configuration
AdditionalServices ==
    {<<>>} \cup {<<Service("web", p, r, b, <<>>, <<>>)>> :
                    p \in BOOLEAN, r \in BOOLEAN, b \in BuildOutcomes}

\* RebuildServiceParams with the services resolved to what their steps meet
RebuildServiceParams ==
    {[all_services |-> <<s>> \o a, skip_deps |-> sd, skip_recreate |-> sr] :
        s \in PrimaryServices, a \in AdditionalServices,
        sd \in BOOLEAN, sr \in BOOLEAN}

\* RebuildError { service, command, .. }
RebuildError(service, command) == [service |-> service, command |-> command]

\* RebuildServiceResponse without its duration
RebuildServiceResponse(success, rebuilt, restarted, recreated, errors) ==
    [success |-> success, services_rebuilt |-> rebuilt,
     services_restarted |-> restarted, containers_recreated |-> recreated,
     errors |-> errors]

\* the four vectors of the handler
NoProgress ==
    [services_rebuilt |-> <<>>, services_restarted |-> <<>>,
     containers_recreated |-> <<>>, errors |-> <<>>]

\* the name of the i-th dependency and of the i-th container of a service
dep_name(s, i) == "db"

container_name(s, i) == s.name \o "-container"

(* Where the handler is: "call" (invoked, awaiting self.config.read()),
   "build" (in runner.run_task for the build task of service number
   `service`), "deps" (in dep_runner.run_task for its dependency number
   `item`), "recreate" (awaiting the output of docker compose for its
   container number `item`), "returned"; acc is the four vectors so far *)
Stop(at, service, item, acc) ==
    [at |-> at, service |-> service, item |-> item, acc |-> acc]

\* the handlers run on their own tasks; the rebuild_service calls explored
RebuildCalls == {"c1", "c2"}

\* the top of `for service_name in &all_services` at service i: a service
\* whose path or runner cannot be found is an error and the loop continues
\* with the next one; otherwise the build task is run; after the last
\* service the response is built
RECURSIVE from_service(_, _, _)
from_service(params, i, acc) ==
    IF i > Len(params.all_services) THEN Stop("returned", i, 0, acc)
    ELSE LET s == params.all_services[i]
         IN  IF ~s.path_ok
             THEN from_service(params, i + 1,
                     [acc EXCEPT !.errors = Append(@, RebuildError(s.name, "resolve_path"))])
             ELSE IF ~s.runner_ok
             THEN from_service(params, i + 1,
                     [acc EXCEPT !.errors = Append(@, RebuildError(s.name, "detect_runner"))])
             ELSE Stop("build", i, 0, acc)

\* `for container in &sc.force_recreate` at container k of service i: docker
\* compose is started for it, unless skip_recreate; after the last one the
\* loop over the services goes on
from_recreate(params, i, k, acc) ==
    IF ~params.skip_recreate /\ k <= Len(params.all_services[i].force_recreate)
    THEN Stop("recreate", i, k, acc)
    ELSE from_service(params, i + 1, acc)

\* `for dep in &sc.depends_on` at dependency k of service i: a dependency
\* whose path or runner cannot be found is only logged, for another one its
\* up task is run, unless skip_deps; after the last one come the containers
RECURSIVE from_deps(_, _, _, _)
from_deps(params, i, k, acc) ==
    IF params.skip_deps \/ k > Len(params.all_services[i].depends_on)
    THEN from_recreate(params, i, 1, acc)
    ELSE IF params.all_services[i].depends_on[k] \in {"no_path", "no_runner"}
    THEN from_deps(params, i, k + 1, acc)
    ELSE Stop("deps", i, k, acc)

\* the match on runner.run_task(.., build_task, ..): a build that exited 0
\* is recorded, any other result is an error
match_build(s, acc) ==
    IF s.build = "exit_0"
    THEN [acc EXCEPT !.services_rebuilt = Append(@, s.name)]
    ELSE [acc EXCEPT !.errors = Append(@, RebuildError(s.name, "build"))]

\* the match on dep_runner.run_task(.., up_task, ..): a dependency that
\* restarted is recorded, any other result is an error
match_restart(s, k, acc) ==
    IF s.depends_on[k] = "exit_0"
    THEN [acc EXCEPT !.services_restarted = Append(@, dep_name(s, k))]
    ELSE [acc EXCEPT !.errors = Append(@, RebuildError(dep_name(s, k), "up"))]

\* the match on recreate_result: a container that was recreated is
\* recorded, a failure is only logged
match_recreate(s, k, acc) ==
    IF s.force_recreate[k] = "exit_0"
    THEN [acc EXCEPT !.containers_recreated = Append(@, container_name(s, k))]
    ELSE acc

\* the RebuildServiceResponse built from the four vectors
response(acc) ==
    RebuildServiceResponse(acc.errors = <<>>, acc.services_rebuilt,
                           acc.services_restarted, acc.containers_recreated,
                           acc.errors)

NoResponse == RebuildServiceResponse(FALSE, <<>>, <<>>, <<>>, <<>>)

\* the calls a second client makes while the first call runs
SecondParams ==
    {[all_services |-> <<Service("api", TRUE, TRUE, "exit_0", <<"exit_0">>, <<f>>)>>,
      skip_deps |-> FALSE, skip_recreate |-> FALSE] : f \in {"exit_0", "exit_1"}}

InitRebuildVars ==
    /\ \E p \in RebuildServiceParams, q \in SecondParams :
          rb_params = [c \in RebuildCalls |-> IF c = "c1" THEN p ELSE q]
    /\ rb_response = [c \in RebuildCalls |-> NoResponse]
    /\ rb_pc = [c \in RebuildCalls |-> Stop("call", 0, 0, NoProgress)]

\* self.config.read().await hands the handler of call c the read guard; the
\* handler runs up to the build task of the first service whose path and
\* runner are found, or to its return
RebuildServiceCall ==
    \E c \in RebuildCalls :
        /\ rb_pc[c].at = "call"
        /\ LET stop == from_service(rb_params[c], 1, NoProgress)
           IN  /\ rb_pc' = [rb_pc EXCEPT ![c] = stop]
               /\ rb_response' =
                     IF stop.at = "returned"
                     THEN [rb_response EXCEPT ![c] = response(stop.acc)]
                     ELSE rb_response
        /\ UNCHANGED rb_params
        /\ UNCHANGED notRebuildVars

\* runner.run_task returns for the build task of a service; the handler goes
\* on to the next process it runs, or to its return
BuildTaskEnds ==
    \E c \in RebuildCalls :
        /\ rb_pc[c].at = "build"
        /\ LET i == rb_pc[c].service
               s == rb_params[c].all_services[i]
               stop == from_deps(rb_params[c], i, 1, match_build(s, rb_pc[c].acc))
           IN  /\ rb_pc' = [rb_pc EXCEPT ![c] = stop]
               /\ rb_response' =
                     IF stop.at = "returned"
                     THEN [rb_response EXCEPT ![c] = response(stop.acc)]
                     ELSE rb_response
        /\ UNCHANGED rb_params
        /\ UNCHANGED notRebuildVars

\* dep_runner.run_task returns for the up task of a dependency
DependencyRestartEnds ==
    \E c \in RebuildCalls :
        /\ rb_pc[c].at = "deps"
        /\ LET i == rb_pc[c].service
               k == rb_pc[c].item
               s == rb_params[c].all_services[i]
               stop == from_deps(rb_params[c], i, k + 1, match_restart(s, k, rb_pc[c].acc))
           IN  /\ rb_pc' = [rb_pc EXCEPT ![c] = stop]
               /\ rb_response' =
                     IF stop.at = "returned"
                     THEN [rb_response EXCEPT ![c] = response(stop.acc)]
                     ELSE rb_response
        /\ UNCHANGED rb_params
        /\ UNCHANGED notRebuildVars

\* the output().await of docker compose up -d --force-recreate resolves
RecreateEnds ==
    \E c \in RebuildCalls :
        /\ rb_pc[c].at = "recreate"
        /\ LET i == rb_pc[c].service
               k == rb_pc[c].item
               s == rb_params[c].all_services[i]
               stop == from_recreate(rb_params[c], i, k + 1, match_recreate(s, k, rb_pc[c].acc))
           IN  /\ rb_pc' = [rb_pc EXCEPT ![c] = stop]
               /\ rb_response' =
                     IF stop.at = "returned"
                     THEN [rb_response EXCEPT ![c] = response(stop.acc)]
                     ELSE rb_response
        /\ UNCHANGED rb_params
        /\ UNCHANGED notRebuildVars

RebuildIdle ==
    /\ rb_params = [c \in RebuildCalls |->
                      [all_services |-> <<Service("api", FALSE, FALSE, "error", <<>>, <<>>)>>,
                       skip_deps |-> FALSE, skip_recreate |-> FALSE]]
    /\ rb_response = [c \in RebuildCalls |-> NoResponse]
    /\ rb_pc = [c \in RebuildCalls |-> Stop("idle", 0, 0, NoProgress)]

NextRebuild ==
    \/ RebuildServiceCall
    \/ BuildTaskEnds
    \/ DependencyRestartEnds
    \/ RecreateEnds

----------------------------------------------------------------------------
(* Specifications *)

InitDetect == InitDetectVars /\ RunnerIdle /\ ExecIdle /\ TruncIdle /\ ConcIdle /\ DiscIdle /\ CmdIdle /\ ResIdle /\ OptIdle /\ TreeIdle /\ ServerIdle /\ RebuildIdle

DetectSpec == InitDetect /\ [][NextDetect]_vars

InitRunner == InitRunnerVars /\ DetectIdle /\ ExecIdle /\ TruncIdle /\ ConcIdle /\ DiscIdle /\ CmdIdle /\ ResIdle /\ OptIdle /\ TreeIdle /\ ServerIdle /\ RebuildIdle

RunnerSpec == InitRunner /\ [][NextRunner]_vars

InitExec == InitExecVars /\ DetectIdle /\ RunnerIdle /\ TruncIdle /\ ConcIdle /\ DiscIdle /\ CmdIdle /\ ResIdle /\ OptIdle /\ TreeIdle /\ ServerIdle /\ RebuildIdle

ExecSpec == InitExec /\ [][NextExec]_vars

\* the kernel delivers a SIGKILL that was sent, and the runtime that ran
\* exec_command keeps running, so its process driver reaps orphans
ExecFairSpec ==
    ExecSpec /\ WF_vars(ChildKilled) /\ WF_vars(ReapOrphans)

\* the operating system keeps running the child, and the runtime keeps
\* running every task that was woken: the two drain tasks and the task that
\* awaits exec_command; nothing obliges the caller to drop the future
ExecLiveSpec ==
    /\ ExecSpec
    /\ WF_vars(ChildWrite) /\ WF_vars(ChildSigpipe) /\ WF_vars(ChildExit)
    /\ WF_vars(ChildKilled) /\ WF_vars(ReapOrphans)
    /\ WF_vars(DrainStdout) /\ WF_vars(DrainStderr)
    /\ WF_vars(ExecSpawn) /\ WF_vars(ExecSpawnFailed)
    /\ WF_vars(ExecPollPending) /\ WF_vars(ExecPollReady)

InitTrunc == InitTruncVars /\ DetectIdle /\ RunnerIdle /\ ExecIdle /\ ConcIdle /\ DiscIdle /\ CmdIdle /\ ResIdle /\ OptIdle /\ TreeIdle /\ ServerIdle /\ RebuildIdle

TruncSpec == InitTrunc /\ [][NextTrunc]_vars

InitConc == InitConcVars /\ DetectIdle /\ RunnerIdle /\ ExecIdle /\ TruncIdle /\ DiscIdle /\ CmdIdle /\ ResIdle /\ OptIdle /\ TreeIdle /\ ServerIdle /\ RebuildIdle

ConcSpec == InitConc /\ [][NextConc]_vars

InitDisc == InitDiscVars /\ DetectIdle /\ RunnerIdle /\ ExecIdle /\ TruncIdle /\ ConcIdle /\ CmdIdle /\ ResIdle /\ OptIdle /\ TreeIdle /\ ServerIdle /\ RebuildIdle

DiscSpec == InitDisc /\ [][NextDisc]_vars

InitCmd == InitCmdVars /\ DetectIdle /\ RunnerIdle /\ ExecIdle /\ TruncIdle /\ ConcIdle /\ DiscIdle /\ ResIdle /\ OptIdle /\ TreeIdle /\ ServerIdle /\ RebuildIdle

CmdSpec == InitCmd /\ [][NextCmd]_vars

InitRes == ((InitResVars /\ RunnerIdle) \/ (ResIdle /\ InitRunnerVars)) /\ DetectIdle /\ ExecIdle /\ TruncIdle /\ ConcIdle /\ DiscIdle /\ CmdIdle /\ OptIdle /\ TreeIdle /\ ServerIdle /\ RebuildIdle

ResSpec == InitRes /\ [][NextRes]_vars

InitOpt == InitOptVars /\ DetectIdle /\ RunnerIdle /\ ExecIdle /\ TruncIdle /\ ConcIdle /\ DiscIdle /\ CmdIdle /\ ResIdle /\ TreeIdle /\ ServerIdle /\ RebuildIdle

OptSpec == InitOpt /\ [][NextOpt]_vars

InitTree == InitTreeVars /\ DetectIdle /\ RunnerIdle /\ ExecIdle /\ TruncIdle /\ ConcIdle /\ DiscIdle /\ CmdIdle /\ ResIdle /\ OptIdle /\ ServerIdle /\ RebuildIdle

TreeSpec == InitTree /\ [][NextTree]_vars

\* the operating system keeps running the processes and delivers a SIGKILL
\* that was sent; the runtime keeps running every task that was woken (the
\* drain tasks, the task awaiting exec_command) and its process driver
TreeLiveSpec ==
    /\ TreeSpec
    /\ WF_vars(TreeSpawn) /\ WF_vars(TreeFork)
    /\ WF_vars(TreeChildWrite) /\ WF_vars(TreeChildSigpipe) /\ WF_vars(TreeChildExit)
    /\ WF_vars(TreeChildKilled) /\ WF_vars(TreeDescendantExit)
    /\ WF_vars(TreeDrainStdout) /\ WF_vars(TreeDrainStderr)
    /\ WF_vars(TreePollPending) /\ WF_vars(TreePollReady)
    /\ WF_vars(TreeReapOrphans)

InitServer == InitServerVars /\ DetectIdle /\ RunnerIdle /\ ExecIdle /\ TruncIdle /\ ConcIdle /\ DiscIdle /\ CmdIdle /\ ResIdle /\ OptIdle /\ TreeIdle /\ RebuildIdle

ServerSpec == InitServer /\ [][NextServer]_vars

\* the tool calls in flight finish, and the runtime keeps running the task
\* that awaits the write lock once the lock was handed to it
ServerLiveSpec ==
    ServerSpec /\ WF_vars(ToolReturns) /\ WF_vars(ReloadConfigStores)

InitRebuild == InitRebuildVars /\ DetectIdle /\ RunnerIdle /\ ExecIdle /\ TruncIdle /\ ConcIdle /\ DiscIdle /\ CmdIdle /\ ResIdle /\ OptIdle /\ TreeIdle /\ ServerIdle

RebuildSpec == InitRebuild /\ [][NextRebuild]_vars

----------------------------------------------------------------------------
(* Detector claims *)

\* marker evidence for a backend name of runner_priority, read off the
\* directory itself: a regular file under one of the backend's names; for
\* "script", a configured candidate that is a regular executable file
RegularFile(d, name) == d[name] = "file" \/ d[name] = "exec"

ScriptEvidence(d, cfg, i) == d[strip_prefix(cfg.scripts[i])] = "exec"

MarkerEvidence(d, cfg, backend) ==
    CASE backend = "make" -> \E i \in DOMAIN MakefileNames : RegularFile(d, MakefileNames[i])
      [] backend = "just" -> \E i \in DOMAIN JustfileNames : RegularFile(d, JustfileNames[i])
      [] backend = "script" -> \E i \in DOMAIN cfg.scripts : ScriptEvidence(d, cfg, i)
      [] OTHER -> FALSE

\* positions of runner_priority whose backend has evidence
EvidencePositions(d, cfg) ==
    {i \in DOMAIN cfg.runner_priority : MarkerEvidence(d, cfg, cfg.runner_priority[i])}

Least(S) == CHOOSE x \in S : \A y \in S : x <= y

\* the runner the first backend with evidence stands for
FirstWithEvidence(d, cfg) ==
    IF EvidencePositions(d, cfg) = {} THEN NoRunner
    ELSE LET backend == cfg.runner_priority[Least(EvidencePositions(d, cfg))] IN
         CASE backend = "make" -> Make
           [] backend = "just" -> Just
           [] OTHER ->
                LET j == Least({i \in DOMAIN cfg.scripts : ScriptEvidence(d, cfg, i)})
                IN  Script(dot_slash(strip_prefix(cfg.scripts[j])))

\* C8: detect_runner sets `detected` to the first backend, in runner_priority
\* order, that has evidence in the directory (for Script: the first
\* configured candidate that exists and is executable); a later backend
\* never displaces an earlier one that has evidence.
C8_DetectedIsFirstWithEvidence ==
    det_pc = "done" => detection.detected = FirstWithEvidence(dir, config)

\* C8 witness: two different backends of the priority list have evidence and
\* the earlier one was detected
C8_Witness ==
    /\ det_pc = "done"
    /\ Len(config.runner_priority) = 2
    /\ config.runner_priority[1] # config.runner_priority[2]
    /\ EvidencePositions(dir, config) = {1, 2}
    /\ detection.detected = FirstWithEvidence(dir, config)
    /\ detection.detected # NoRunner

\* every RunnerType value detection can name
RunnerTypes == {Make, Just} \cup {Script(dot_slash(f)) : f \in ScriptFiles}

\* the backend is in the priority list and has marker evidence
ListedWithEvidence(d, cfg, r) ==
    CASE r = Make -> "make" \in Range(cfg.runner_priority) /\ MarkerEvidence(d, cfg, "make")
      [] r = Just -> "just" \in Range(cfg.runner_priority) /\ MarkerEvidence(d, cfg, "just")
      [] OTHER ->
            /\ "script" \in Range(cfg.runner_priority)
            /\ \E i \in DOMAIN cfg.scripts :
                  /\ ScriptEvidence(d, cfg, i)
                  /\ r = Script(dot_slash(strip_prefix(cfg.scripts[i])))

\* C9: `available` contains a backend if and only if the backend is in the
\* priority list and has marker evidence in the directory, and `detected`,
\* when present, is a member of `available`.
C9_AvailableIffEvidence ==
    det_pc = "done" =>
        /\ Range(detection.available) \subseteq RunnerTypes
        /\ \A r \in RunnerTypes :
              r \in Range(detection.available) <=> ListedWithEvidence(dir, config, r)
        /\ detection.detected # NoRunner =>
              detection.detected \in Range(detection.available)

\* C9 witness: a directory where one listed backend has evidence and another
\* listed backend's marker name exists without being evidence
C9_Witness ==
    /\ det_pc = "done"
    /\ detection.detected # NoRunner
    /\ Len(detection.available) = 1
    /\ \E i \in DOMAIN config.runner_priority :
          /\ config.runner_priority[i] \in {"make", "just", "script"}
          /\ ~MarkerEvidence(dir, config, config.runner_priority[i])
    /\ \E n \in FileNames : dir[n] \in {"dir", "file"} /\ n \in ScriptFiles \cup {"Makefile"}
    /\ Cardinality({n \in FileNames : dir[n] # "absent"}) = 2

\* no backend has marker evidence in the directory
NoEvidence(d, cfg) ==
    \A backend \in {"make", "just", "script"} : ~MarkerEvidence(d, cfg, backend)

\* C10: detect_runner never fails; for a directory without marker evidence
\* (an empty or nonexistent one included) it returns the empty result:
\* detected absent, available empty, no files found.
C10_NoEvidenceEmptyResult ==
    det_pc = "done" /\ NoEvidence(dir, config) => detection = DetectionDefault

\* C10 witness: detection ran over a full priority list on a directory that
\* holds entries but no evidence (a script without the executable bit)
C10_Witness ==
    /\ det_pc = "done"
    /\ NoEvidence(dir, config)
    /\ "script" \in Range(config.runner_priority)
    /\ \E f \in ScriptFiles : dir[f] = "file"
    /\ detection = DetectionDefault

\* C10 witness (second case): the empty or nonexistent directory
C10_WitnessEmptyDir ==
    /\ det_pc = "done"
    /\ \A n \in FileNames : dir[n] = "absent"
    /\ Len(config.runner_priority) = MaxPriority
    /\ detection = DetectionDefault

----------------------------------------------------------------------------
(* Runner claims *)

\* run_task spawned the task's process and the process ended
ProcessRan == rn_pc = "done" /\ rn_dir0.marker /\ rn_installed

\* C5 (as claimed): when RunOptions.timeout is set and the task's process
\* runs longer than it, run_task returns TaskError::Timeout instead of
\* blocking until the process exits.
C5_TimeoutEnforced ==
    /\ ProcessRan
    /\ rn_options.timeout # None
    /\ rn_elapsed > rn_options.timeout[1]
    => rn_result.kind = "Timeout"

\* C6: when the task's process is spawned and exits with a nonzero status
\* whose stderr does not match the runner's not-found phrasing, run_task
\* returns Ok with success = false and the process's own exit code, stdout
\* and stderr (as text: the bytes decoded the way String::from_utf8_lossy
\* decodes them); an error is returned only when the task was not run:
\* nothing could be spawned, or the backend rejected the task name.
C6_FailureIsResult ==
    /\ /\ ProcessRan
       /\ rn_output.code # Some(0)
       /\ \A p \in NotFoundPhrases(rn_runner) : ~contains(rn_output.stderr, p)
       => /\ rn_result.kind = "Ok"
          /\ rn_result.success = FALSE
          /\ rn_result.exit_code = rn_output.code
          /\ rn_result.stdout = from_utf8_lossy(rn_output.stdout)
          /\ rn_result.stderr = from_utf8_lossy(rn_output.stderr)
    /\ rn_pc = "done" /\ rn_result.kind # "Ok"
       => \/ ~rn_dir0.marker /\ rn_result.kind = "NoRunnerDetected"
          \/ ~rn_installed /\ rn_result.kind = "SpawnFailed"
          \/ /\ ProcessRan
             /\ rn_output.code # Some(0)
             /\ \E p \in NotFoundPhrases(rn_runner) : contains(rn_output.stderr, p)

\* C6 witness: a process killed by a signal, with another runner's not-found
\* phrase on stderr, came back as a failed result
C6_Witness ==
    /\ ProcessRan
    /\ rn_output.code = None
    /\ rn_output.stderr # <<>>
    /\ \E r \in Runners \ {rn_runner} :
          \E p \in NotFoundPhrases(r) : contains(rn_output.stderr, p)
    /\ rn_result.kind = "Ok"
    /\ rn_result.success = FALSE
    /\ rn_result.stderr = rn_output.stderr

\* the task names some discovery strategy lists for directory state d
ListedSomewhere(d) ==
    Range(d.parse.tasks) \cup Range(d.tool.tasks) \cup Range(d.tool2.tasks)

\* C7 (as claimed): running a task name that no discovery strategy lists
\* yields TaskNotFound, whose `available` equals the names list_tasks returns
\* for the directory at the time of the failure.
C7_UnlistedTaskNotFound ==
    /\ ProcessRan
    /\ rn_task \notin ListedSomewhere(rn_dir0)
    /\ rn_task \notin ListedSomewhere(rn_dir)
    /\ list_tasks(rn_runner, rn_dir).ok
    => /\ rn_result.kind = "TaskNotFound"
       /\ rn_result.available = list_tasks(rn_runner, rn_dir).tasks

\* C7 (amended): run_task yields TaskNotFound exactly when the process exits
\* unsuccessfully with the runner's not-found phrase on stderr; its
\* `available` holds the names returned by the list_tasks call run_task makes
\* after the process has ended (empty when that call fails), no list_tasks
\* call having begun before; when the directory does not change while that
\* call runs, these are the names list_tasks returns for the directory as it
\* is when the process has ended, not as it was when run_task was called.
C7_NotFoundIffPhrase ==
    /\ rn_pc = "running" => rn_listing = NoListing
    /\ ProcessRan =>
        /\ rn_result.kind = "TaskNotFound" <=>
              /\ rn_output.code # Some(0)
              /\ \E p \in NotFoundPhrases(rn_runner) : contains(rn_output.stderr, p)
        /\ rn_result.kind = "TaskNotFound" =>
              /\ rn_result.task = rn_task
              /\ rn_listing.caller = "run_task"
              /\ rn_result.available =
                    IF rn_listing.result.ok THEN rn_listing.result.tasks ELSE <<>>
              /\ rn_listing.dir = rn_dir =>
                    rn_result.available =
                        IF list_tasks(rn_runner, rn_dir).ok
                        THEN list_tasks(rn_runner, rn_dir).tasks
                        ELSE <<>>

\* C7 witness: the directory changed while the process ran, and the error
\* carries the new listing, which differs from the one at call time
C7_Witness ==
    /\ ProcessRan
    /\ rn_result.kind = "TaskNotFound"
    /\ rn_dir # rn_dir0
    /\ rn_listing.dir = rn_dir
    /\ list_tasks(rn_runner, rn_dir).ok
    /\ list_tasks(rn_runner, rn_dir0).ok
    /\ list_tasks(rn_runner, rn_dir0).tasks # <<>>
    /\ rn_result.available # list_tasks(rn_runner, rn_dir0).tasks
    /\ rn_result.available = list_tasks(rn_runner, rn_dir).tasks
    /\ rn_result.available # <<>>

\* the marker file was removed while the listing program of run_task's
\* list_tasks call ran: the error carries no names although the directory
\* listed some when the process ended
C7_ChangedWhileListing ==
    /\ ProcessRan
    /\ rn_result.kind = "TaskNotFound"
    /\ rn_listing.dir = rn_dir0
    /\ ~rn_dir.marker
    /\ rn_spawned >= 2
    /\ list_tasks(rn_runner, rn_dir0).ok
    /\ list_tasks(rn_runner, rn_dir0).tasks # <<>>
    /\ rn_result.available = <<>>

\* the discovery strategies of a runner in the claimed fallback order
Chain(runner) ==
    CASE runner = "make" -> <<"parse_makefile", "list_targets_via_make">>
      [] runner = "just" -> <<"list_via_dump", "list_via_just", "parse_justfile">>
      [] runner = "script" -> <<"list_via_help", "list_via_parse">>

\* what a strategy comes back with on directory d
Outcome(d, strategy) ==
    CASE strategy \in {"parse_makefile", "parse_justfile", "list_via_parse"} -> d.parse
      [] strategy \in {"list_targets_via_make", "list_via_dump", "list_via_help"} -> d.tool
      [] strategy = "list_via_just" -> d.tool2

\* the strategy found at least one task
Yields(o) == o.ok /\ o.tasks # <<>>

\* list_tasks was called on a directory that holds the runner's marker file
\* and has returned, the directory being the same throughout the call
Listed == rn_pc = "listed" /\ rn_dir.marker /\ rn_listing.dir = rn_dir

\* the strategies tried are the first ones of chain; every one but the last
\* failed or came back empty; the last one tried yielded tasks or is the
\* last of the chain; its outcome is what list_tasks returns
FallsThrough(chain) ==
    LET t == rn_listing.tried IN
    /\ Len(t) >= 1 /\ Len(t) <= Len(chain)
    /\ \A i \in DOMAIN t : t[i] = chain[i]
    /\ \A i \in 1..(Len(t) - 1) : ~Yields(Outcome(rn_dir, t[i]))
    /\ Len(t) < Len(chain) => Yields(Outcome(rn_dir, t[Len(t)]))
    /\ rn_listing.result = Outcome(rn_dir, t[Len(t)])
    /\ ~rn_listing.result.ok => Len(t) = Len(chain)

\* C14 as stated: within one runner's list_tasks a failed or empty strategy
\* triggers the next strategy of the runner's order (Make: file parse,
\* database dump; Just: JSON dump, textual listing, file parse; Script: help
\* output, static parse), and an error is returned only when every strategy
\* was tried without result.
C14_NextStrategyInOrder == Listed => FallsThrough(Chain(rn_runner))

\* the order the Just runner follows on d: the textual listing is run only
\* in place of a JSON dump whose command exited unsuccessfully
JustChain(d) ==
    IF d.tool = ErrTasks("StatusFailed")
    THEN <<"list_via_dump", "list_via_just", "parse_justfile">>
    ELSE <<"list_via_dump", "parse_justfile">>

\* C14 amended: Make and Script fall through their two strategies in order.
\* Just runs the JSON dump; the textual listing is run only when the dump
\* command exits unsuccessfully; the file parse follows whenever what came
\* before failed or was empty, so a dump that cannot be spawned, is not valid
\* JSON or is empty goes straight to the file parse.  An error is returned
\* only by the last strategy, after each earlier one tried failed or was empty.
C14_FallbackChain ==
    Listed =>
        IF rn_runner = "just"
        THEN /\ \A i \in DOMAIN rn_listing.tried :
                    rn_listing.tried[i] = JustChain(rn_dir)[i]
             /\ LET t == rn_listing.tried
                    before == Outcome(rn_dir, t[Len(t) - 1])
                IN  IF t[Len(t)] = "parse_justfile"
                    THEN /\ ~Yields(before)
                         /\ Len(t) = Len(JustChain(rn_dir))
                         /\ rn_listing.result = rn_dir.parse
                    ELSE /\ Len(t) = Len(JustChain(rn_dir)) - 1
                         /\ Yields(rn_listing.result)
                         /\ rn_listing.result = Outcome(rn_dir, t[Len(t)])
        ELSE FallsThrough(Chain(rn_runner))

\* the Just runner could not spawn the dump and went straight to a file
\* parse that found tasks
C14_Witness ==
    /\ Listed
    /\ rn_runner = "just"
    /\ rn_dir.tool = ErrTasks("SpawnFailed")
    /\ rn_listing.tried = <<"list_via_dump", "parse_justfile">>
    /\ Yields(rn_listing.result)

----------------------------------------------------------------------------
(* Executor claims *)

\* the child has exited and both drain tasks have ended
ChildFinished ==
    /\ ex_child.state \in {"zombie", "reaped"}
    /\ \A s \in Streams : ex_drain[s].state # "reading"

\* exec_command returns in this step
ExecReturns == ex_pc = "waiting" /\ ex_pc' = "returned"

\* C1: a call with a timeout that returns while the child has not exited
\* and been fully drained returns the Timeout error, which carries no
\* ExecResult and no captured stdout or stderr; a call that returns when the
\* child has finished returns the result (Ok(ExecResult)), never Timeout.
C1_TimeoutOrResult ==
    [][ExecReturns =>
          IF ChildFinished
          THEN ex_result'.kind = "Ok"
          ELSE /\ ex_result'.kind = "Timeout"
               /\ ex_options.timeout # None
               /\ ex_result'.stdout = <<>>
               /\ ex_result'.stderr = <<>>]_vars

\* the execution timed out, or its future was dropped before completion
EndedEarly == ex_result.kind = "Timeout" \/ ex_pc = "dropped"

\* C2: after an execution timed out or its future was dropped before
\* completion, the child is eventually not running and reaped.
C2_ChildEventuallyReaped == [](EndedEarly => <>(ex_child.state = "reaped"))

\* a timed-out execution whose child was killed by the drop and then reaped
C2_Witness ==
    /\ ex_result.kind = "Timeout"
    /\ ex_child.signal = "SIGKILL"
    /\ ex_child.state = "reaped"

\* the number of places where marker occurs in text
Occurrences(text, marker) ==
    Cardinality({i \in 1..(Len(text) - Len(marker) + 1) :
                    SubSeq(text, i, i + Len(marker) - 1) = marker})

IsSuffix(marker, text) ==
    /\ Len(text) >= Len(marker)
    /\ SubSeq(text, Len(text) - Len(marker) + 1, Len(text)) = marker

\* C3: for every max_size N and every stream of more than N bytes,
\* read_and_truncate returns a buffer with the truncated flag set, of at
\* most N + len(marker) bytes, that contains the marker exactly once, as
\* its suffix.
C3_TruncatedWithinCap ==
    tr_pc = "returned" /\ Len(tr_content) > tr_max_size =>
        /\ tr_ret.state = "done"
        /\ tr_ret.truncated
        /\ Len(tr_ret.output) <= tr_max_size + Len(TRUNCATION_MARKER)
        /\ Occurrences(tr_ret.output, TRUNCATION_MARKER) = 1
        /\ IsSuffix(TRUNCATION_MARKER, tr_ret.output)

\* C4: when a stream of a returned ExecResult was truncated, that stream is
\* no longer read, the child was not ended by a signal (a kill, a broken
\* pipe) and exit_code is the code the program itself exits with.
C4_TruncationKeepsExitCode ==
    ex_result.kind = "Ok"
    /\ (ex_result.stdout_truncated \/ ex_result.stderr_truncated) =>
        /\ \A s \in Streams : ex_drain[s].truncated => ~ex_pipe[s].rd
        /\ ex_child.signal = ""
        /\ ~ex_program.hangs
        /\ ex_result.exit_code = Some(ex_program.code)

\* the bytes of ops[1..n] that went to stream s, in the order written
RECURSIVE written(_, _, _)
written(ops, n, s) ==
    IF n = 0 THEN <<>>
    ELSE written(ops, n - 1, s)
         \o (IF ops[n].stream = s THEN ops[n].data ELSE <<>>)

\* a captured buffer without its trailing truncation marker
StripMarker(drain) ==
    IF drain.truncated
    THEN SubSeq(drain.output, 1, Len(drain.output) - Len(TRUNCATION_MARKER))
    ELSE drain.output

IsPrefix(a, b) == Len(a) <= Len(b) /\ SubSeq(b, 1, Len(a)) = a

\* what the child of call e has written to stream s so far
ConcWritten(e, s) ==
    written(cx_call[e].program.ops, cx_call[e].child.ip - 1, s)

\* every buffer of every call holds only what that call's own child wrote to
\* that stream, and a returned result carries those buffers
IsolatedBuffers ==
    \A e \in Execs :
        /\ \A s \in Streams :
              /\ Range(StripMarker(cx_call[e].drain[s])) \subseteq {OwnByte(e, s), "\n"}
              /\ IsPrefix(StripMarker(cx_call[e].drain[s]), ConcWritten(e, s))
        /\ cx_call[e].result.kind = "Ok" =>
              /\ cx_call[e].result.stdout = cx_call[e].drain["stdout"].output
              /\ cx_call[e].result.stderr = cx_call[e].drain["stderr"].output

\* a step that changes one call's state or pipes leaves the other call's alone
NoSharedState ==
    \A e \in Execs :
        (cx_call'[e] # cx_call[e]
         \/ \E s \in Streams : cx_pipe'[<<e, s>>] # cx_pipe[<<e, s>>]) =>
            \A o \in Execs \ {e} :
                /\ cx_call'[o] = cx_call[o]
                /\ \A s \in Streams : cx_pipe'[<<o, s>>] = cx_pipe[<<o, s>>]

\* C11: two concurrent executions are isolated: under every interleaving of
\* the children's writes and of the four drain tasks each call's stdout and
\* stderr buffer holds only bytes its own child wrote to that stream, and
\* no step of one call changes any state of the other.
C11_ConcurrentIsolation == [](IsolatedBuffers) /\ [][NoSharedState]_vars

\* call 1 has captured its child's stdout line while call 2's child has
\* written a stdout line that call 2 has not read yet
C11_Witness ==
    /\ cx_call[1].drain["stdout"].output = <<"o1", "\n">>
    /\ cx_call[2].pc = "waiting"
    /\ cx_pipe[<<2, "stdout">>].buf = <<"o2", "\n">>

\* a call without a timeout whose program writes a finite amount and exits
FiniteUntimed ==
    /\ ex_pc = "waiting"
    /\ ex_options.timeout = None
    /\ ~ex_program.hangs

\* C12: stdout and stderr are drained independently, so for a child that
\* writes a finite amount to the two streams and then exits, exec_command
\* without a timeout eventually returns a result (Ok(ExecResult)), for
\* every max_output_size, unless the caller drops the call first.
C12_EventuallyResult ==
    [](FiniteUntimed =>
          <>((ex_pc = "returned" /\ ex_result.kind = "Ok") \/ ex_pc = "dropped"))

\* what the child has written to stream s so far
ExecWritten(s) == written(ex_program.ops, ex_child.ip - 1, s)

\* C13: at every point of an execution the captured stdout buffer, and
\* likewise the stderr buffer, with a trailing truncation marker removed, is
\* a prefix of the bytes the child wrote to that stream, in the order
\* written; a returned ExecResult carries exactly these buffers.
C13_CapturedIsPrefix ==
    /\ \A s \in Streams : IsPrefix(StripMarker(ex_drain[s]), ExecWritten(s))
    /\ ex_result.kind = "Ok" =>
          /\ ex_result.stdout = ex_drain["stdout"].output
          /\ ex_result.stderr = ex_drain["stderr"].output

\* a returned result whose stdout holds a whole line followed by the cut
\* start of the next, different line
C13_Witness ==
    /\ ex_result.kind = "Ok"
    /\ ex_result.stdout = <<"\n", "a">> \o TRUNCATION_MARKER
    /\ ExecWritten("stdout") = <<"\n", "a", "\n">>

\* r is the program, a space, and then the arguments in order with one
\* space between neighbours
RendersCommand(r, program, args) ==
    /\ Len(r) = (IF args = <<>> THEN 2 ELSE 2 * Len(args) + 1)
    /\ r[1] = program
    /\ r[2] = " "
    /\ \A i \in DOMAIN args : r[2 * i + 1] = args[i]
    /\ \A i \in 2..Len(args) : r[2 * i] = " "

\* C20: when the program cannot be spawned, exec_command returns SpawnFailed
\* carrying the rendered command string, with or without a timeout: there
\* is no ExecResult, no drain task was started, no child and no pipe exist;
\* and SpawnFailed is returned for no other reason.
C20_SpawnFailed ==
    /\ ~ex_program.exists => ex_pc \in {"idle", "init", "returned"}
    /\ ~ex_program.exists /\ ex_pc = "returned" =>
          /\ ex_result.kind = "SpawnFailed"
          /\ RendersCommand(ex_result.command, ex_program.program, ex_program.args)
          /\ ex_result.stdout = <<>> /\ ex_result.stderr = <<>>
          /\ \A s \in Streams : ex_drain[s] = NoDrain /\ ex_pipe[s] = ClosedPipe
          /\ ex_child = NoChild
    /\ ex_result.kind = "SpawnFailed" => ~ex_program.exists

\* a failed spawn of a program with two arguments, under a timeout
C20_Witness ==
    /\ ex_result.kind = "SpawnFailed"
    /\ ex_options.timeout # None
    /\ Len(ex_program.args) = 2
    /\ ex_program.args[1] # ex_program.args[2]

(* ------------------------------------------------------------------ *)
(* Runner claims: no marker file                                        *)
(* ------------------------------------------------------------------ *)

\* the directory the call started in holds no marker for the runner: no
\* regular file under the marker's name, or, for Script, one that is missing
\* or has no execute bit
NoMarkerFile ==
    IF rn_runner = "script"
    THEN rn_dir0.entry # "exec"
    ELSE rn_dir0.entry \notin {"file", "exec"}

\* C15: when the directory holds no marker file for the runner's backend (for
\* Script: the script is missing or not executable), list_tasks and run_task
\* both return NoRunnerDetected and no subprocess is spawned: the call never
\* waits on a process, runs no listing strategy and spawns nothing.
C15_NoMarkerNoRunner ==
    NoMarkerFile =>
        /\ rn_pc \notin {"running", "tool_started", "tool_read"}
        /\ rn_spawned = 0
        /\ rn_pc = "done" => rn_result = TaskError("NoRunnerDetected")
        /\ rn_pc = "listed" =>
               /\ rn_listing.result = NoRunnerDetected
               /\ rn_listing.tried = <<>>

\* a call on a directory whose script exists without an execute bit has returned
C15_Witness ==
    /\ rn_runner = "script"
    /\ rn_dir0.entry = "file"
    /\ rn_pc \in {"done", "listed"}

\* the justfile was removed while `just --dump` ran: list_tasks returned
\* NoRunnerDetected after it had spawned a subprocess
C15_RemovedWhileListing ==
    /\ rn_runner = "just"
    /\ rn_pc = "listed"
    /\ rn_dir0.marker
    /\ rn_listing.result = NoRunnerDetected
    /\ rn_listing.tried = <<"list_via_dump">>
    /\ rn_spawned = 1

(* ------------------------------------------------------------------ *)
(* Discovery claims                                                     *)
(* ------------------------------------------------------------------ *)

\* a discovery strategy has returned a list
Discovered == ds_pc = "returned" /\ ds_result.ok

\* no two entries of the list carry the same name
UniqueNames(tasks) ==
    \A i, j \in DOMAIN tasks : tasks[i].name = tasks[j].name => i = j

\* C16: task names are unique within one discovery call: whatever text a
\* strategy reads (Make file parse and database dump; Just JSON dump, textual
\* listing and file parse; Script help parse in both modes and static parse),
\* the list it returns never holds two entries with the same name.
C16_UniqueNames == Discovered => UniqueNames(ds_result.tasks)

\* the strategies that keep a set of seen names, or check the list before
\* they push, return lists without repeated names
C16_DedupStrategies ==
    (Discovered /\ ds_strategy \notin {"parse_list_output", "parse_help_output"})
        => UniqueNames(ds_result.tasks)

\* the two-column mode of the help parse (no Commands section found) returns
\* lists without repeated names
C16_TwoColumnUnique ==
    (/\ Discovered
     /\ ds_strategy = "parse_help_output"
     /\ commands_section(combined(ds_input.text, ds_input.err), 1, <<>>, FALSE) = <<>>)
        => UniqueNames(ds_result.tasks)

\* a parameter as its source declares it: its name, its default if it has
\* one, and whether it is variadic
Declared(name, default, variadic) ==
    [name |-> name, default |-> default, variadic |-> variadic]

\* the parameters an argument text of a listing or of a justfile declares
DeclaredByText(toks) ==
    [k \in DOMAIN toks |->
        Declared(toks[k].name,
                 IF toks[k].eq THEN Some(toks[k].value) ELSE None,
                 toks[k].prefix \in {"+", "*"})]

\* the parameters a recipe of the JSON dump declares
DeclaredByDump(parameters) ==
    [k \in DOMAIN parameters |->
        Declared(parameters[k].name,
                 IF parameters[k].default = None THEN None
                 ELSE Some(parameters[k].default[1].text),
                 parameters[k].kind \in {"Plus", "Star"})]

\* the parameters declared for the k-th task of the returned list: those of
\* the k-th recipe line of a listing, of the first recipe line of that name in
\* a justfile, of the recipe the dump holds under that name
DeclaredFor(k) ==
    LET name == ds_result.tasks[k].name
        text == ds_input.text
    IN  CASE ds_strategy = "parse_list_output" ->
                DeclaredByText(
                    SelectSeq(text, LAMBDA l : l.kind = "recipe" /\ l.name \in Identifiers)[k].args)
          [] ds_strategy = "parse_justfile" ->
                DeclaredByText(
                    text[CHOOSE i \in DOMAIN text :
                            /\ file_recipe_re(text[i]) = Some(name)
                            /\ \A j \in 1..(i - 1) : file_recipe_re(text[j]) # Some(name)].args)
          [] ds_strategy = "parse_dump_json" ->
                DeclaredByDump(
                    (CHOOSE r \in recipes_map(ds_input.dump.recipes) : r.name = name).parameters)

JustStrategies == {"parse_dump_json", "parse_list_output", "parse_justfile"}

\* an argument with a default is never required
DefaultNotRequired(arguments) ==
    \A a \in DOMAIN arguments : arguments[a].default # None => ~arguments[a].required

\* the arguments are the declared parameters, one for one: a variadic
\* parameter or one with a default is not required, a default is kept, and a
\* parameter with neither is required
FollowsDeclaration(arguments, declared) ==
    /\ Len(arguments) = Len(declared)
    /\ \A a \in DOMAIN arguments :
          /\ arguments[a].name = declared[a].name
          /\ arguments[a].default = declared[a].default
          /\ arguments[a].required
                <=> (declared[a].default = None /\ ~declared[a].variadic)

\* C17: every TaskArg a discovery strategy produces has required = false
\* whenever it has a default value or is variadic (kind Plus/Star in the dump,
\* a + or * prefix in listing or file syntax); a Just parameter with a default
\* keeps that default as the argument's default, and a parameter with neither
\* a default nor a variadic kind is required.
C17_RequiredFollowsDeclaration ==
    Discovered =>
        \A k \in DOMAIN ds_result.tasks :
            /\ DefaultNotRequired(ds_result.tasks[k].arguments)
            /\ ds_strategy \in JustStrategies =>
                   FollowsDeclaration(ds_result.tasks[k].arguments, DeclaredFor(k))

\* an argument text in which no default is written without quotes
AllQuoted(toks) == \A k \in DOMAIN toks : toks[k].eq => toks[k].quote # ""

\* the same statement for the texts whose defaults are all quoted, and for
\* the dump
C17_QuotedDefaults ==
    (/\ Discovered
     /\ \A i \in DOMAIN ds_input.text : AllQuoted(ds_input.text[i].args))
        => \A k \in DOMAIN ds_result.tasks :
              /\ DefaultNotRequired(ds_result.tasks[k].arguments)
              /\ ds_strategy \in JustStrategies =>
                     FollowsDeclaration(ds_result.tasks[k].arguments, DeclaredFor(k))

\* the flag alone: no argument with a default is required, whatever the text
C17_DefaultNeverRequired ==
    Discovered =>
        \A k \in DOMAIN ds_result.tasks :
            DefaultNotRequired(ds_result.tasks[k].arguments)

(* ------------------------------------------------------------------ *)
(* Command claims                                                       *)
(* ------------------------------------------------------------------ *)

\* run_task of the given kind of runner has spawned its command
Spawned(kind) == cm_pc = "spawned" /\ cm_runner.kind = kind

\* the words of argv from position i on
From(argv, i) == SubSeq(argv, i, Len(argv))

\* C18: the Make runner renders and invokes <make_cmd> <task>, then every
\* named argument as KEY=VALUE, then, if and only if there is a positional
\* argument, a single "--" followed by the positional arguments in order; the
\* rendered string is the invoked words joined by blanks, and for task build
\* with the one named argument TARGET=release it is "make build TARGET=release".
C18_MakeCommand ==
    Spawned("make") =>
        LET named == Len(cm_options.args)
            pos == cm_options.positional_args
        IN  /\ Len(cm_argv) = 2 + named + (IF pos = <<>> THEN 0 ELSE 1 + Len(pos))
            /\ cm_argv[1] = cm_runner.command
            /\ cm_argv[2] = cm_task
            /\ \A i \in 1..named :
                  cm_argv[2 + i] = cm_options.args[i][1] \o "=" \o cm_options.args[i][2]
            /\ pos # <<>> => cm_argv[3 + named] = "--" /\ From(cm_argv, 4 + named) = pos
            /\ cm_command = join_words(cm_argv)
            /\ (/\ cm_runner.command = "make"
                /\ cm_task = "build"
                /\ cm_options.args = << <<"TARGET", "release">> >>
                /\ pos = <<>>)
                  => cm_command = "make build TARGET=release"

\* a Make task has been run with a named and a positional argument
C18_Witness ==
    /\ Spawned("make")
    /\ cm_options.args = << <<"TARGET", "release">> >>
    /\ cm_options.positional_args = <<"arg1">>
    /\ cm_command = "make build TARGET=release -- arg1"

\* C19: the Script runner invokes <shell> <script_path> <task>, then the
\* positional arguments in order, then each named argument as --KEY=VALUE, a
\* named argument with an empty value as the bare flag --KEY; the command
\* string lists the task and the same arguments after the script's name.
C19_ScriptCommand ==
    Spawned("script") =>
        LET pos == cm_options.positional_args
            named == cm_options.args
        IN  /\ Len(cm_argv) = 3 + Len(pos) + Len(named)
            /\ cm_argv[1] = cm_runner.command
            /\ cm_argv[2] = ProjectDir \o "/" \o cm_runner.script_name.file
            /\ cm_argv[3] = cm_task
            /\ SubSeq(cm_argv, 4, 3 + Len(pos)) = pos
            /\ \A i \in DOMAIN named :
                  cm_argv[3 + Len(pos) + i] =
                      IF named[i][2] = "" THEN "--" \o named[i][1]
                      ELSE "--" \o named[i][1] \o "=" \o named[i][2]
            /\ cm_command =
                  join_words(<<script_name_text(cm_runner.script_name)>> \o From(cm_argv, 3))

\* a Script task has been run with a positional argument, a valued named
\* argument and an empty-valued one
C19_Witness ==
    /\ Spawned("script")
    /\ cm_options.positional_args = <<"arg1">>
    /\ cm_options.args = << <<"TARGET", "release">>, <<"VERBOSE", "">> >>
    /\ cm_argv = <<"bash", "/proj/run.sh", "build", "arg1", "--TARGET=release", "--VERBOSE">>

(* ------------------------------------------------------------------ *)
(* Result claims                                                        *)
(* ------------------------------------------------------------------ *)

\* success is set exactly when the exit code is present and 0
SuccessIffZero(r) == r.kind = "Ok" => (r.success <=> r.exit_code = Some(0))

\* C21: in every result the executor or a runner produces (the ExecResult of
\* exec_command, the RunResult of to_run_result and of run_task), success is
\* true if and only if the exit code is present and equal to 0; a process
\* that ended without an exit code is never reported as successful.
C21_SuccessIffExitZero ==
    /\ SuccessIffZero(rs_exec)
    /\ SuccessIffZero(rs_run)
    /\ SuccessIffZero(rn_result)
    /\ (rs_input.code = None) => (~rs_exec.success /\ ~rs_run.success)
    /\ (rn_output.code = None) => ~rn_result.success

\* a process killed by a signal has been converted to a RunResult
C21_Witness ==
    /\ rs_pc = "done"
    /\ rs_input.code = None
    /\ rs_run.kind = "Ok"
    /\ rs_run.exit_code = None
    /\ ~rs_run.success

(* ------------------------------------------------------------------ *)
(* Detector claims: scripts without an executable bit                   *)
(* ------------------------------------------------------------------ *)

\* the script path is reported nowhere in the result
NotReported(result, p) ==
    /\ Script(p) \notin Range(result.available)
    /\ p \notin Range(result.files_found.scripts)
    /\ result.detected # Script(p)

\* the configured candidates that are regular files with an executable bit
ExecutableCandidates(d, cfg) ==
    {dot_slash(strip_prefix(cfg.scripts[i])) :
        i \in {j \in DOMAIN cfg.scripts : d[strip_prefix(cfg.scripts[j])] = "exec"}}

\* C22: a configured script candidate that exists as a regular file without
\* any executable permission bit is never reported by detection (not in
\* available, not in files_found.scripts, not detected), and detection goes
\* on with the next candidate: the executable candidates are still reported.
C22_NonExecutableSkipped ==
    det_pc = "done" =>
        /\ \A i \in DOMAIN config.scripts :
              dir[strip_prefix(config.scripts[i])] = "file" =>
                  NotReported(detection, dot_slash(strip_prefix(config.scripts[i])))
        /\ "script" \in Range(config.runner_priority) =>
              ExecutableCandidates(dir, config) \subseteq Range(detection.files_found.scripts)

\* the first candidate has no executable bit, the second has one and is the
\* detected runner
C22_Witness ==
    /\ det_pc = "done"
    /\ "script" \in Range(config.runner_priority)
    /\ dir[strip_prefix(config.scripts[1])] = "file"
    /\ dir[strip_prefix(config.scripts[2])] = "exec"
    /\ detection.detected = Script(dot_slash(strip_prefix(config.scripts[2])))
    /\ detection.files_found.scripts = <<dot_slash(strip_prefix(config.scripts[2]))>>

(* ------------------------------------------------------------------ *)
(* Truncation claims: streams within the cap                            *)
(* ------------------------------------------------------------------ *)

\* the call returned a buffer that is flagged untruncated, holds no marker
\* and is the whole stream
Untouched ==
    /\ tr_ret.state = "done"
    /\ ~tr_ret.truncated
    /\ Occurrences(tr_ret.output, TRUNCATION_MARKER) = 0
    /\ tr_ret.output = tr_content

\* C23: when the total output of a stream is at most max_output_size bytes
\* (exactly equal included), truncated is false, the buffer holds no
\* truncation marker and the buffer equals the full content of the stream.
C23_WithinCapUntouched ==
    tr_pc = "returned" /\ Len(tr_content) <= tr_max_size => Untouched

\* the same for the streams that are well-formed UTF-8: there the buffer is
\* the stream, at every size up to and including the cap
C23_Utf8WithinCapUntouched ==
    tr_pc = "returned" /\ Len(tr_content) <= tr_max_size /\ is_utf8(tr_content)
        => Untouched

\* a well-formed stream of exactly max_size bytes came back whole
C23_ExactlyAtCap ==
    /\ tr_pc = "returned"
    /\ tr_max_size = MaxOutputSize
    /\ Len(tr_content) = tr_max_size
    /\ is_utf8(tr_content)
    /\ Untouched

(* ------------------------------------------------------------------ *)
(* Executor claims: defaults and overrides                              *)
(* ------------------------------------------------------------------ *)

\* C24: in the options build_options hands to the execution, an override
\* working directory or timeout replaces the default when it is present and
\* the default is kept otherwise; the environment is the union of the
\* default and the override variables, the override value winning on a
\* shared key; and max_output_size is the one of the call.
C24_MergedOptions ==
    bo_pc = "exec_command" =>
        /\ bo_overrides.working_dir # None => bo_merged.working_dir = bo_overrides.working_dir
        /\ bo_overrides.working_dir = None => bo_merged.working_dir = bo_executor.working_dir
        /\ bo_overrides.timeout # None => bo_merged.timeout = bo_overrides.timeout
        /\ bo_overrides.timeout = None => bo_merged.timeout = bo_executor.default_timeout
        /\ keys(bo_merged.env) = keys(bo_executor.env) \cup keys(bo_overrides.env)
        /\ \A k \in keys(bo_overrides.env) :
              get(bo_merged.env, k) = get(bo_overrides.env, k)
        /\ \A k \in keys(bo_executor.env) \ keys(bo_overrides.env) :
              get(bo_merged.env, k) = get(bo_executor.env, k)
        /\ \A p \in bo_merged.env, q \in bo_merged.env : p[1] = q[1] => p = q
        /\ bo_merged.max_output_size = bo_overrides.max_output_size

\* a call that overrides the timeout but not the directory, with one variable
\* only in the defaults and one on both sides with different values
C24_Witness ==
    /\ bo_pc = "exec_command"
    /\ bo_executor.default_timeout = Some(30)
    /\ bo_overrides.timeout = Some(60)
    /\ bo_executor.working_dir = Some("/tmp")
    /\ bo_overrides.working_dir = None
    /\ bo_executor.env = {<<"DEFAULT", "1">>, <<"SHARED", "1">>}
    /\ bo_overrides.env = {<<"SHARED", "2">>}
    /\ bo_overrides.max_output_size = 1000
    /\ bo_merged = ExecOptions(Some("/tmp"), {<<"DEFAULT", "1">>, <<"SHARED", "2">>},
                               Some(60), TRUE, 1000)

(* ------------------------------------------------------------------ *)
(* Discovery claims: descriptions of statically parsed scripts          *)
(* ------------------------------------------------------------------ *)

\* line i is a case-branch label or a function definition outside the
\* stoplist
Candidate(lines, i) ==
    \/ lines[i].kind = "case"
    \/ lines[i].kind = "func" /\ lines[i].name \notin {"main", "usage", "help"}

\* line i is a label or definition static parsing lists: a help) branch
\* counts only when nothing was listed before it
ListedLine(lines, i) ==
    /\ Candidate(lines, i)
    /\ ~(lines[i].kind = "case" /\ lines[i].name = "help"
            /\ \E j \in 1..(i - 1) : Candidate(lines, j))

\* the "# comment" line right above line i, if there is one
CommentAbove(lines, i) ==
    IF i > 1 /\ lines[i - 1].kind = "comment" THEN Some(lines[i - 1].text) ELSE None

\* the description the result gives for name n
DescriptionOf(tasks, n) ==
    {tasks[k].description : k \in {j \in DOMAIN tasks : tasks[j].name = n}}

StaticParseReturned ==
    ds_pc = "returned" /\ ds_strategy = "list_via_parse"

\* C25 as stated: every listed label or definition has, in the result, the
\* description of the comment line immediately above it, and none when the
\* line above is not a comment.
C25_EveryLabelOwnComment ==
    StaticParseReturned =>
        \A i \in DOMAIN ds_input.text :
            ListedLine(ds_input.text, i) =>
                DescriptionOf(ds_result.tasks, ds_input.text[i].name)
                    = {CommentAbove(ds_input.text, i)}

\* C25: static script parsing lists each name once, with the description of
\* the first label or definition of that name: the comment line immediately
\* above that line, and none when the line above it is anything else (a
\* blank line included) or when it is the first line.
C25_FirstLabelComment ==
    StaticParseReturned =>
        /\ ds_result.ok
        /\ {ds_result.tasks[k].name : k \in DOMAIN ds_result.tasks}
              = {ds_input.text[i].name :
                    i \in {j \in DOMAIN ds_input.text : ListedLine(ds_input.text, j)}}
        /\ \A i \in DOMAIN ds_input.text :
              /\ ListedLine(ds_input.text, i)
              /\ \A j \in 1..(i - 1) :
                    ListedLine(ds_input.text, j) => ds_input.text[j].name # ds_input.text[i].name
              => DescriptionOf(ds_result.tasks, ds_input.text[i].name)
                    = {CommentAbove(ds_input.text, i)}

\* "# Build it", "build)", "test)": build is described, test is not
C25_Witness ==
    /\ StaticParseReturned
    /\ ds_input.text = <<Line("comment", "", <<>>, "Build it"),
                         Line("case", "build", <<>>, ""),
                         Line("case", "test", <<>>, "")>>
    /\ ds_result.tasks = <<TaskInfo("build", Some("Build it"), <<>>),
                           TaskInfo("test", None, <<>>)>>

\* "# Build it", blank, "build)": the comment is not used
C25_SeparatedComment ==
    /\ StaticParseReturned
    /\ ds_input.text = <<Line("comment", "", <<>>, "Build it"), Blank,
                         Line("case", "build", <<>>, "")>>
    /\ ds_result.tasks = <<TaskInfo("build", None, <<>>)>>

(* ------------------------------------------------------------------ *)
(* Detector claims: duplicates in the priority list                     *)
(* ------------------------------------------------------------------ *)

\* no element occurs at two positions of the sequence
NoDuplicates(s) == \A i \in DOMAIN s, j \in DOMAIN s : s[i] = s[j] => i = j

\* C26: for any runner_priority list, lists that name a backend more than
\* once or hold unknown names included, available holds each backend and
\* each script path at most once, and files_found.scripts holds each script
\* path at most once.
C26_AvailableUnique ==
    det_pc = "done" =>
        /\ NoDuplicates(detection.available)
        /\ NoDuplicates(detection.files_found.scripts)

\* the same for the priority lists that name no backend twice, unknown names
\* included
C26_UniqueForDistinctPriorities ==
    det_pc = "done" /\ NoDuplicates(config.runner_priority) =>
        /\ NoDuplicates(detection.available)
        /\ NoDuplicates(detection.files_found.scripts)

(* ------------------------------------------------------------------ *)
(* Command claims: the command string against the spawned argv          *)
(* ------------------------------------------------------------------ *)

\* the string names the words of argv, in order, separated by blanks
Names(command, argv) == command = join_words(argv)

\* C27: for every runner and every RunOptions, the command string of
\* build_command (stored as RunResult.command) names the same program and
\* the same arguments in the same order as the argv run_task spawns.
C27_CommandNamesArgv ==
    cm_pc = "spawned" => Names(cm_command, cm_argv)

\* the Make and Just runners: the string is the argv joined by blanks
C27_MakeJustCommandNamesArgv ==
    cm_pc = "spawned" /\ cm_runner.kind \in {"make", "just"} =>
        Names(cm_command, cm_argv)

\* the Script runner: the string leaves the shell out and starts with the
\* configured script name where argv has the resolved path; from the task
\* name on the two agree
C27_ScriptCommandFromTask ==
    Spawned("script") =>
        /\ cm_argv[1] = cm_runner.command
        /\ cm_argv[2] = script_path(ProjectDir, cm_runner.script_name)
        /\ cm_command = join_words(<<script_name_text(cm_runner.script_name)>>
                                      \o From(cm_argv, 3))
        /\ ~Names(cm_command, cm_argv)

(* ------------------------------------------------------------------ *)
(* Execution claims: the drain tasks of a timed-out execution           *)
(* ------------------------------------------------------------------ *)

\* the drain task of stream s has ended: read_and_truncate returned, or the
\* task unwound
DrainEnded(s) == pt_drain[s].state \in {"done", "panicked"}

\* C28: after exec_command returned the Timeout error, each of the two
\* drain tasks that wait_for_output spawned eventually terminates.
C28_DrainsEventuallyEnd ==
    [](pt_result.kind = "Timeout" => <>(\A s \in Streams : DrainEnded(s)))

\* the same for the commands all of whose processes end: the child started
\* no descendant, or the descendant ends by itself
C28_DrainsEndWithLastWriter ==
    [](pt_result.kind = "Timeout"
          /\ (pt_program.forks => pt_program.descendant_exits)
          => <>(\A s \in Streams : DrainEnded(s)))

\* the timed-out child was killed and reaped, its descendant still holds the
\* pipes and both drain tasks are blocked in read_line
C28_DrainsLeftRunning ==
    /\ pt_result.kind = "Timeout"
    /\ pt_child.state = "reaped"
    /\ pt_child.signal = "SIGKILL"
    /\ pt_descendant = "running"
    /\ ~pt_program.descendant_exits
    /\ \A s \in Streams : pt_drain[s].state = "reading" /\ pt_pipe[s].buf = <<>>

(* ------------------------------------------------------------------ *)
(* Server claims: one configuration per tool call                       *)
(* ------------------------------------------------------------------ *)

\* call c holds its read guard
InFlight(c) == mc_call[c].pc = "called" /\ c \in mc_lock.readers

\* everything call c read from the configuration is one value
OneValue(c) ==
    \A i \in DOMAIN mc_call[c].seen, j \in DOMAIN mc_call[c].seen :
        mc_call[c].seen[i] = mc_call[c].seen[j]

\* reload_config has asked for the write lock and was not given it yet
ReloadWaiting == mc_reload.pc = "locking" /\ ~mc_lock.writer

\* C29: each tool call (run_task, list_tasks, detect_runner,
\* get_project_config, rebuild_service) observes one configuration value
\* for its whole duration; the configuration is replaced only while no
\* call holds it; and a reload requested while calls are in flight takes
\* effect after they finish.
C29_OneConfigPerCall ==
    /\ [](\A c \in Calls : OneValue(c))
    /\ [][mc_config' # mc_config => \A c \in Calls : ~InFlight(c)]_vars
    /\ [][ReloadWaiting' /\ ~ReloadWaiting => mc_config' = mc_config]_vars
    /\ [](ReloadWaiting => <>(mc_reload.pc = "ready" /\ mc_config = mc_reload.loaded))

\* a reload that had to wait for call c1 was stored after c1 returned: c1
\* read the old value twice, c2 started afterwards and reads the new one
C29_Witness ==
    /\ mc_reload.waited
    /\ mc_reload.count = 1
    /\ mc_config = 1
    /\ mc_call["c1"].pc = "returned"
    /\ mc_call["c1"].seen = <<0, 0>>
    /\ InFlight("c2")
    /\ mc_call["c2"].seen = <<1>>

(* ------------------------------------------------------------------ *)
(* Server claims: the success flag of rebuild_service                   *)
(* ------------------------------------------------------------------ *)

\* the build of service s was attempted
BuildAttempted(s) == s.path_ok /\ s.runner_ok

\* the restart of the dependencies of s, and the recreation of its
\* containers, were attempted by call c
RestartsAttempted(c, s) == BuildAttempted(s) /\ ~rb_params[c].skip_deps

RecreatesAttempted(c, s) == BuildAttempted(s) /\ ~rb_params[c].skip_recreate

\* every step call c attempted for s succeeded: path resolution, runner
\* selection, the build task, each dependency restart, each container
\* recreation
AllStepsSucceeded(c, s) ==
    /\ s.path_ok
    /\ s.runner_ok
    /\ s.build = "exit_0"
    /\ RestartsAttempted(c, s) =>
          \A i \in DOMAIN s.depends_on : s.depends_on[i] = "exit_0"
    /\ RecreatesAttempted(c, s) =>
          \A i \in DOMAIN s.force_recreate : s.force_recreate[i] = "exit_0"

\* the services, dependencies and containers with a failed step
FailedNames(c, s) ==
    (IF ~AllStepsSucceeded(c, s) /\ (~BuildAttempted(s) \/ s.build # "exit_0")
     THEN {s.name} ELSE {})
    \cup (IF RestartsAttempted(c, s)
          THEN {dep_name(s, i) : i \in {j \in DOMAIN s.depends_on : s.depends_on[j] # "exit_0"}}
          ELSE {})
    \cup (IF RecreatesAttempted(c, s)
          THEN {container_name(s, i) :
                  i \in {j \in DOMAIN s.force_recreate : s.force_recreate[j] # "exit_0"}}
          ELSE {})

RebuildReturned(c) == rb_pc[c].at = "returned"

Services(c) == Range(rb_params[c].all_services)

\* C30: rebuild_service reports success = true exactly when every step it
\* attempted succeeded (path resolution, runner selection and the build
\* task of each service, each dependency restart, each container
\* force-recreate); a failed step gives success = false and an entry in
\* errors; and a service is in services_rebuilt only if its build exited 0.
C30_SuccessIffAllStepsSucceeded ==
    \A c \in RebuildCalls :
      RebuildReturned(c) =>
        /\ rb_response[c].success <=> \A s \in Services(c) : AllStepsSucceeded(c, s)
        /\ \A s \in Services(c) : \A n \in FailedNames(c, s) :
              \E k \in DOMAIN rb_response[c].errors : rb_response[c].errors[k].service = n
        /\ \A s \in Services(c) :
              s.name \in Range(rb_response[c].services_rebuilt) => s.build = "exit_0"

\* what the flag does stand for: no entry in errors, i.e. every path
\* resolution, runner selection and build of a service and every up task of
\* a dependency succeeded; a service is listed as rebuilt exactly when its
\* build was attempted and exited 0; whatever another call does meanwhile
C30_SuccessIffNoErrorEntry ==
    \A c \in RebuildCalls :
      /\ ~RebuildReturned(c) => rb_response[c] = NoResponse
      /\ RebuildReturned(c) =>
        /\ rb_response[c].success <=> rb_response[c].errors = <<>>
        /\ rb_response[c].success <=>
              \A s \in Services(c) :
                  /\ s.path_ok /\ s.runner_ok /\ s.build = "exit_0"
                  /\ RestartsAttempted(c, s) =>
                        \A i \in DOMAIN s.depends_on :
                            s.depends_on[i] \notin {"exit_1", "error"}
        /\ \A s \in Services(c) :
              s.name \in Range(rb_response[c].services_rebuilt)
                  <=> BuildAttempted(s) /\ s.build = "exit_0"

\* the build succeeded, the container could not be recreated, and the
\* response says success with no error
C30_FailedRecreateReportedSuccess ==
    /\ RebuildReturned("c1")
    /\ Len(rb_params["c1"].all_services) = 1
    /\ ~rb_params["c1"].skip_recreate
    /\ rb_params["c1"].all_services[1].build = "exit_0"
    /\ BuildAttempted(rb_params["c1"].all_services[1])
    /\ rb_params["c1"].all_services[1].depends_on = <<>>
    /\ rb_params["c1"].all_services[1].force_recreate = <<"exit_1">>
    /\ rb_response["c1"] = RebuildServiceResponse(TRUE, <<"api">>, <<>>, <<>>, <<>>)

\* one call has built its service and waits for docker compose while the
\* other call is in the build of its own
C30_CallsInterleave ==
    /\ rb_pc["c1"].at = "recreate"
    /\ rb_pc["c1"].acc.services_rebuilt = <<"api">>
    /\ rb_pc["c1"].acc.containers_recreated = <<>>
    /\ rb_pc["c2"].at = "build"

====
